---- MODULE Spec2Model ----
(***************************************************************************)
(* Model of the NodeAnalyzer graph-construction engine:                    *)
(*   - resolveImports      (Reference Resolver)                            *)
(*   - parseFile           (Source Extractor, seen through its record)     *)
(*   - buildMetricsFromEntrypoint (Graph Builder: BFS loop, bounded        *)
(*     directory expansion, text-file reference scan, project skeleton)    *)
(*                                                                         *)
(* Representation of paths.  A file name is the sequence of its            *)
(* dot-separated parts ("server.js" is <<"server","js">>, "public" is      *)
(* <<"public">>, "." is <<"","">>, ".." is <<"","","">>, ".env" is         *)
(* <<"","env">>).  An absolute path is the sequence of its names, the      *)
(* filesystem root "/" being <<>>.  A node id is a sequence of names       *)
(* relative to projectRoot ("" is <<>>).                                   *)
(***************************************************************************)
EXTENDS Integers, Sequences, FiniteSets, TLC

VARIABLES
  fs,          \* the project tree: [files, dirs, unreadable, content]
  pc,          \* position of build(): "dequeue","refs","call","imports","exit","done","failed"
  visited,     \* Set of absolute paths                      (line 122)
  nodes,       \* Array of node objects                      (line 123)
  links,       \* Array of link objects                      (line 124)
  queue,       \* FIFO work queue of absolute paths          (line 125)
  nodeIndex,   \* Map id -> position of the node object      (line 132)
  linkIndex,   \* Set of <<source, type, target>> keys       (line 133)
  cur,         \* [abs, id, refs, imports] of the file being processed
  stack,       \* call stack of expandDirectoryBounded / tryParseReferencedTextFile
  failure,     \* the error build() rejected with, "" when none
  atLoopExit,  \* [nodes, links]: array lengths when the while loop ended
  run,         \* number of the build() run on this tree
  prev,        \* payload returned by the previous run
  rq,          \* resolver harness: [from, spec, out, done]
  requested,   \* link harness: the triples ensureLink was asked for
  impl,        \* which copy of the change feed runs: "liveChangeFeed" or "analyze"
  clients,     \* Set of subscribers, in insertion order      (liveChangeFeed.js:44)
  sock,        \* state of each subscriber's connection
  watcher,     \* the tracked watch, 0 for null               (liveChangeFeed.js:47)
  watches,     \* every watch chokidar.watch() ever returned: [root, run, st]
  activeAnalysis, \* [rootAbs, runToken]                      (liveChangeFeed.js:55)
  tasks,       \* suspended async calls, in the order they began to wait
  lastCast,    \* the last broadcast: what was sent and who received it
  errAt,       \* number of watches at the last watch error, -1 when none
  ui,          \* the browser consumer: [currentRunToken, marked, last]
  scanned,     \* history: the text files tryParseReferencedTextFile read in this run
  persisted,   \* the graph in the output file: [rootAbs, runToken] of the run that wrote it
  shell,       \* the UI instances: runAnalysis state and currentRunToken of each
  wire,        \* requests, responses and notifications on their way
  walk         \* traversal of a syntax tree: [ast, next, out]

vars == <<fs, pc, visited, nodes, links, queue, nodeIndex, linkIndex, cur,
          stack, failure, atLoopExit, run, prev, rq, requested,
          impl, clients, sock, watcher, watches, activeAnalysis, tasks, lastCast, errAt, ui,
          scanned, persisted, shell, wire, walk>>

(***************************************************************************)
(* Bounds of the model                                                     *)
(***************************************************************************)
MaxRuns == 2          \* consecutive build() runs on the same tree
MaxCallDepth == 8     \* nested expansion frames the engine's stack holds
MaxLinkCalls == 4     \* ensureLink calls in the link harness
MaxClients == 2       \* subscribers that connect to GET /events
MaxActivations == 3   \* analysis activations (run tokens issued)
MaxAstNodes == 2      \* nodes of a syntax tree handed to the traversal
MaxPosts == 2         \* POST /analyze requests the server takes up in the shell model

(***************************************************************************)
(* Names                                                                   *)
(***************************************************************************)
Dot == <<"", "">>
DotDot == <<"", "", "">>

nProj == <<"proj">>
nServer == <<"server", "js">>
nA == <<"a", "js">>
nAStem == <<"a">>
nPublic == <<"public">>
nIndexHtml == <<"index", "html">>
nApp == <<"app", "js">>
nCss == <<"css">>
nSite == <<"site", "css">>
nNotesSp == <<"notes ">>
nPkg == <<"package", "json">>
nSecret == <<"secret", "js">>
nMissing == <<"missing", "json">>
nExpress == <<"express">>
nEnv == <<"", "env">>
nModules == <<"node_modules">>
nDotsFoo == <<"", "", "foo", "js">>     \* the file name "..foo.js"
nPipe == <<"a", "js|use|a", "js">>      \* the file name "a.js|use|a.js"
nAppDir == <<"app">>
nRoutes == <<"routes">>
nApps == <<"apps", "js">>

Root == <<nProj>>
EntryAbs == <<nProj, nServer>>
AAbs == <<nProj, nA>>
PublicAbs == <<nProj, nPublic>>
IndexAbs == <<nProj, nPublic, nIndexHtml>>
AppAbs == <<nProj, nPublic, nApp>>
CssAbs == <<nProj, nPublic, nCss>>
SiteAbs == <<nProj, nPublic, nCss, nSite>>
NotesAbs == <<nProj, nPublic, nNotesSp>>
PkgAbs == <<nProj, nPkg>>
SecretAbs == <<nSecret>>
EnvAbs == <<nProj, nEnv>>
ModulesAbs == <<nProj, nPublic, nModules>>
DotsFooAbs == <<nProj, nDotsFoo>>
ATestAbs == <<nProj, <<"a", "test", "js">>>>     \* /proj/a.test.js
AppDirAbs == <<nProj, nAppDir>>
AppServerAbs == <<nProj, nAppDir, nServer>>
RoutesAbs == <<nProj, nAppDir, nRoutes>>
AppsAbs == <<nProj, nAppDir, nRoutes, nApps>>

\* "No path": the value standing for JavaScript null where a path is expected.
\* No real path has an empty name.
Null == << <<>> >>

Last(s) == s[Len(s)]
Front(s) == SubSeq(s, 1, Len(s) - 1)

\* String.prototype.trim on one part of a name.
TrimStr(s) == CASE s = "notes " -> "notes" [] OTHER -> s

\* String.prototype.toLowerCase on one extension.
ToLowerCase(s) == CASE s = "JS" -> "js" [] s = "HTML" -> "html" [] OTHER -> s

\* trim() of a whole path string: leading blanks of the first name,
\* trailing blanks of the last name.
TrimPath(p) ==
  IF p = <<>> THEN p
  ELSE LET f == [p EXCEPT ![1] = [@ EXCEPT ![1] = TrimStr(@)]]
       IN [f EXCEPT ![Len(f)] = [@ EXCEPT ![Len(@)] = TrimStr(@)]]

\* name.startsWith(".")
StartsWithDot(name) == Len(name) >= 2 /\ name[1] = ""

\* path.extname(name): <<>> when there is none, else the one-part suffix.
ExtName(name) ==
  IF Len(name) <= 1 THEN <<>>
  ELSE IF name = DotDot THEN <<>>
  ELSE IF Len(name) = 2 /\ name[1] = "" THEN <<>>
  ELSE <<name[Len(name)]>>

\* path.extname(p) of a whole path, lower-cased.
LowerExt(p) ==
  IF p = <<>> THEN <<>>
  ELSE LET e == ExtName(Last(p)) IN IF e = <<>> THEN <<>> ELSE <<ToLowerCase(e[1])>>

\* path.dirname
Dirname(p) == IF p = <<>> THEN <<>> ELSE Front(p)

\* path.resolve(base, ...segs): "." is dropped, ".." pops, "/" has no parent.
RECURSIVE Resolve(_, _)
Resolve(base, segs) ==
  IF segs = <<>> THEN base
  ELSE LET s == Head(segs) IN
       IF s = Dot THEN Resolve(base, Tail(segs))
       ELSE IF s = DotDot THEN Resolve(Dirname(base), Tail(segs))
       ELSE Resolve(Append(base, s), Tail(segs))

IsPrefix(a, b) == Len(a) <= Len(b) /\ SubSeq(b, 1, Len(a)) = a

\* path.relative(from, to) for normalised absolute paths.
RECURSIVE CommonLen(_, _)
CommonLen(a, b) ==
  IF a = <<>> \/ b = <<>> \/ Head(a) # Head(b) THEN 0
  ELSE 1 + CommonLen(Tail(a), Tail(b))

Relative(from, to) ==
  LET k == CommonLen(from, to)
  IN [i \in 1..(Len(from) - k) |-> DotDot] \o SubSeq(to, k + 1, Len(to))

(***************************************************************************)
(* Filesystem                                                              *)
(***************************************************************************)
ExistsFile(p) == p \in fs.files
ExistsDir(p) == p \in fs.dirs
ExistsSync(p) == ExistsFile(p) \/ ExistsDir(p)

\* Order in which fs.readdirSync lists names (fixed for a fixed tree).
\* The names 1.png .. 142.png: two more than one directory expansion takes.
ManyNames == [i \in 1..142 |-> <<ToString(i), "png">>]

AssetsAbs == <<nProj, <<"assets">>>>

NameOrder ==
  ManyNames \o
  <<nDotsFoo, nEnv, nA, nAppDir, nApp, nApps, <<"assets">>, nCss, nIndexHtml, nModules, nNotesSp,
    nPkg, nPublic, nRoutes, nServer, nSite>>

ReaddirSync(d) ==
  IF ~ExistsDir(d) THEN <<>>
  ELSE SelectSeq(NameOrder, LAMBDA n : ExistsSync(Append(d, n)))

\* fs.statSync through safeStat: "file", "dir" or "none" (null).
SafeStat(p) == IF ExistsFile(p) THEN "file" ELSE IF ExistsDir(p) THEN "dir" ELSE "none"

(***************************************************************************)
(* Reference Resolver (resolveImports.js)                                  *)
(* A specifier or raw reference is [scheme, abs, segs, suffix]:            *)
(*   scheme  "" or "http" (a URL), abs: leading "/", segs: the names,      *)
(*   suffix  "" or a "?query"/"#hash" tail.                                *)
(***************************************************************************)
CODE_EXTENSIONS == << <<"js">>, <<"mjs">>, <<"cjs">>, <<"ts">>, <<"tsx">>, <<"jsx">> >>

ASSET_EXTENSIONS ==
  << <<"json">>, <<"css">>, <<"scss">>, <<"sass">>, <<"less">>, <<"html">>, <<"htm">>,
     <<"md">>, <<"txt">>, <<"csv">>, <<"svg">>, <<"png">>, <<"jpg">>, <<"jpeg">>,
     <<"gif">>, <<"webp">>, <<"ico">>, <<"woff">>, <<"woff2">>, <<"ttf">>, <<"eot">> >>

ALL_EXTENSIONS == CODE_EXTENSIONS \o ASSET_EXTENSIONS

\* base + ext on the last name of the path.
AppendExt(p, ext) == [p EXCEPT ![Len(p)] = @ \o ext]

\* First element of a sequence of candidate paths that is an existing file.
RECURSIVE FirstFile(_)
FirstFile(cands) ==
  IF cands = <<>> THEN Null
  ELSE IF ExistsFile(Head(cands)) THEN Head(cands)
  ELSE FirstFile(Tail(cands))

resolveWithExtensions(baseAbs) ==
  LET hasExt == baseAbs # <<>> /\ ExtName(Last(baseAbs)) # <<>>
      appended == IF ~hasExt /\ baseAbs # <<>>
                  THEN FirstFile([i \in 1..Len(ALL_EXTENSIONS) |-> AppendExt(baseAbs, ALL_EXTENSIONS[i])])
                  ELSE Null
      index == IF ExistsDir(baseAbs)
               THEN FirstFile([i \in 1..Len(ALL_EXTENSIONS) |->
                                 Append(baseAbs, <<"index">> \o ALL_EXTENSIONS[i])])
               ELSE Null
  IN IF hasExt /\ ExistsFile(baseAbs) THEN baseAbs
     ELSE IF appended # Null THEN appended
     ELSE index

guessPublicRoots(projectRoot) ==
  SelectSeq(<< projectRoot \o << <<"app">>, <<"public">> >>,
               Append(projectRoot, <<"public">>),
               projectRoot \o << <<"src">>, <<"public">> >>,
               Append(projectRoot, <<"www">>),
               Append(projectRoot, <<"static">>),
               projectRoot >>,
            ExistsDir)

ResolverInsideRootAlways(rootAbs, fileAbs) == TRUE

\* The resolver's own isInsideRoot:
\* file === root || file.startsWith(root + path.sep)
resolverIsInsideRoot(rootAbs, fileAbs) ==
  \/ fileAbs = rootAbs
  \/ /\ rootAbs # <<>>            \* for "/" the prefix is "//", which nothing starts with
     /\ Len(fileAbs) > Len(rootAbs)
     /\ IsPrefix(rootAbs, fileAbs)

\* The first public root under which the web path resolves inside the project.
RECURSIVE FirstPublicHit(_, _, _)
FirstPublicHit(publicRoots, relWeb, rootAbs) ==
  IF publicRoots = <<>> THEN Null
  ELSE LET hit == resolveWithExtensions(Resolve(Head(publicRoots), relWeb))
       IN IF hit # Null /\ resolverIsInsideRoot(rootAbs, hit) THEN hit
          ELSE FirstPublicHit(Tail(publicRoots), relWeb, rootAbs)

resolveImports(fromAbs, spec, projectRoot) ==
  LET fromDir == Dirname(fromAbs)
      startsDot == ~spec.abs /\ spec.segs # <<>> /\ StartsWithDot(spec.segs[1])
  IN IF spec.scheme = "" /\ ~spec.abs /\ spec.segs = <<>> THEN Null   \* empty after strip
     ELSE IF spec.scheme # "" THEN Null                                \* "http://..." is external
     ELSE IF ~startsDot /\ ~spec.abs THEN Null                         \* bare package name
     ELSE IF startsDot
     THEN LET hit == resolveWithExtensions(Resolve(fromDir, spec.segs))
          IN IF hit # Null /\ resolverIsInsideRoot(projectRoot, hit) THEN hit ELSE Null
     ELSE FirstPublicHit(guessPublicRoots(projectRoot), spec.segs, projectRoot)

(***************************************************************************)
(* Source Extractor (parseFile.js), seen through the record it returns.    *)
(* A file's content is [lines, branches, header, imports, refs]: its       *)
(* non-empty line count, the branching constructs, header comment, import  *)
(* specifiers and path-like references its text holds.                     *)
(***************************************************************************)
JsLikeExts == { <<"js">>, <<"mjs">>, <<"cjs">>, <<"ts">>, <<"tsx">>, <<"jsx">> }

isJsLikeExt(ext) == ext \in JsLikeExts

\* Array.from(new Set(arr)): first occurrences, in order.
RECURSIVE Uniq(_)
Uniq(s) ==
  IF s = <<>> THEN <<>>
  ELSE LET r == Uniq(Front(s)) IN
       IF \E i \in 1..Len(r) : r[i] = Last(s) THEN r ELSE Append(r, Last(s))

\* addRefFromText / addAbsRef: one raw reference to an absolute path, or Null.
RefToAbs(baseDir, ref) ==
  IF ref.scheme # "" THEN Null
  ELSE IF ~ref.abs /\ ref.segs = <<>> THEN Null
  ELSE TrimPath(Resolve(IF ref.abs THEN <<>> ELSE baseDir, ref.segs))

\* As parseFile, but a file that cannot be parsed keeps its import list.
ParseFileKeepsImportsOfBroken(code, filename) ==
  LET ext == LowerExt(filename)
      baseDir == Dirname(filename)
      abss == [i \in 1..Len(code.refs) |-> RefToAbs(baseDir, code.refs[i])]
      fileRefsAbs == Uniq(SelectSeq(abss, LAMBDA a : a # Null))
  IN IF isJsLikeExt(ext)
     THEN [imports |-> Uniq(code.imports), lines |-> code.lines,
           complexity |-> code.branches, headerComment |-> code.header,
           fileRefsAbs |-> fileRefsAbs]
     ELSE [imports |-> <<>>, lines |-> code.lines, complexity |-> 0,
           headerComment |-> "", fileRefsAbs |-> fileRefsAbs]

parseFile(code, filename) ==
  LET ext == LowerExt(filename)
      baseDir == Dirname(filename)
      abss == [i \in 1..Len(code.refs) |-> RefToAbs(baseDir, code.refs[i])]
      fileRefsAbs == Uniq(SelectSeq(abss, LAMBDA a : a # Null))
  IN IF isJsLikeExt(ext) /\ code.broken
     THEN [imports |-> <<>>, lines |-> code.lines, complexity |-> 0,
           headerComment |-> code.header, fileRefsAbs |-> fileRefsAbs]
     ELSE IF isJsLikeExt(ext)
     THEN [imports |-> Uniq(code.imports), lines |-> code.lines,
           complexity |-> code.branches, headerComment |-> code.header,
           fileRefsAbs |-> fileRefsAbs]
     ELSE [imports |-> <<>>, lines |-> code.lines, complexity |-> 0,
           headerComment |-> "", fileRefsAbs |-> fileRefsAbs]

(***************************************************************************)
(* Graph Builder helpers (buildMetricsFromEntrypoint.js)                   *)
(***************************************************************************)
MAX_DIR_ENTRIES == 140
MAX_DIR_DEPTH == 2
MAX_SKELETON_DIRS == 16
MAX_SKELETON_FILES_PER_DIR == 100

SKIP_NAMES ==
  { <<"", "DS_Store">>, <<"Thumbs", "db">>, <<"", "git">>, <<"", "svn">>, <<"", "hg">>,
    <<"node_modules">>, <<"", "next">>, <<"", "nuxt">>, <<"dist">>, <<"build">>,
    <<"out">>, <<"", "cache">>, <<"", "idea">>, <<"", "vscode">> }

ASSET_EXT_ALLOW ==
  { <<"js">>, <<"mjs">>, <<"cjs">>, <<"ts">>, <<"tsx">>, <<"jsx">>, <<"json">>, <<"jsonc">>,
    <<"csv">>, <<"tsv">>, <<"md">>, <<"txt">>, <<"html">>, <<"htm">>, <<"css">>,
    <<"yml">>, <<"yaml">>, <<"env">>, <<"sql">>,      \* ".env.local" is no extname value
    <<"png">>, <<"jpg">>, <<"jpeg">>, <<"gif">>, <<"svg">>, <<"webp">>, <<"ico">> }

PARSEABLE_TEXT_EXT ==
  { <<"json">>, <<"jsonc">>, <<"md">>, <<"txt">>, <<"html">>, <<"htm">>, <<"css">> }

IsInsideRootAlways(rootAbs, fileAbs) == TRUE

\* The builder's isInsideRoot (same text as the resolver's).
isInsideRoot(rootAbs, fileAbs) ==
  \/ fileAbs = rootAbs
  \/ /\ rootAbs # <<>>
     /\ Len(fileAbs) > Len(rootAbs)
     /\ IsPrefix(rootAbs, fileAbs)

toProjectRelativeId(projectRoot, absPath) ==
  LET rel == Relative(projectRoot, absPath)
  IN IF rel # <<>> /\ rel[1] = DotDot THEN <<Last(absPath)>> ELSE rel

\* toAbsFromRelMaybe for the absolute paths parseFile hands over.
toAbsFromRelMaybe(projectRootAbs, relOrAbs) ==
  LET raw == TrimPath(relOrAbs) IN raw

isScriptFile(p) == LowerExt(p) \in JsLikeExts

\* The four structures build() threads through its helpers.
Graph == [nodeIndex |-> nodeIndex, nodes |-> nodes, linkIndex |-> linkIndex, links |-> links]

EmptyGraph == [nodeIndex |-> <<>>, nodes |-> <<>>, linkIndex |-> {}, links |-> <<>>]

\* A placeholder node literal { id, file: id, lines: 0, complexity: 0, headerComment: "", kind }.
Placeholder(id, kind) ==
  [id |-> id, file |-> id, lines |-> 0, complexity |-> 0, headerComment |-> "", kind |-> kind]

EnsureNodeNoDedupe(G, node) ==
  LET id == TrimPath(node.id)
  IN IF id = <<>> THEN G
     ELSE [G EXCEPT !.nodes = Append(@, [node EXCEPT !.id = id]),
                    !.nodeIndex = (id :> (Len(G.nodes) + 1)) @@ @]

\* As ensureNode, but the merge takes the metrics of the later call as they come.
EnsureNodeOverwrites(G, node) ==
  LET id == TrimPath(node.id)
  IN IF id = <<>> THEN G
     ELSE IF id \in DOMAIN G.nodeIndex
     THEN [G EXCEPT !.nodes[G.nodeIndex[id]] =
             [@ EXCEPT !.lines = node.lines, !.complexity = node.complexity,
                       !.headerComment = node.headerComment]]
     ELSE [G EXCEPT !.nodes = Append(@, [node EXCEPT !.id = id,
                                           !.file = IF @ = <<>> THEN id ELSE @]),
                    !.nodeIndex = @ @@ (id :> (Len(G.nodes) + 1))]

\* kind "" stands for a node object without the kind property.
ensureNode(G, node) ==
  LET id == TrimPath(node.id)
  IN IF id = <<>> THEN G
     ELSE IF id \in DOMAIN G.nodeIndex
     THEN LET i == G.nodeIndex[id]
              e == G.nodes[i]
              merged ==
                [e EXCEPT
                   !.lines = IF e.lines = 0 /\ node.lines > 0 THEN node.lines ELSE @,
                   !.complexity = IF e.complexity = 0 /\ node.complexity > 0
                                  THEN node.complexity ELSE @,
                   !.headerComment = IF e.headerComment = "" /\ node.headerComment # ""
                                     THEN node.headerComment ELSE @,
                   !.kind = IF e.kind = "" /\ node.kind # "" THEN node.kind ELSE @,
                   !.file = IF e.file = <<>> /\ node.file # <<>> THEN node.file ELSE @]
          IN [G EXCEPT !.nodes[i] = merged]
     ELSE LET normalized ==
                [id |-> id,
                 file |-> IF node.file = <<>> THEN id ELSE node.file,
                 lines |-> node.lines,
                 complexity |-> node.complexity,
                 headerComment |-> node.headerComment,
                 kind |-> node.kind]
          IN [G EXCEPT !.nodes = Append(@, normalized),
                       !.nodeIndex = @ @@ (id :> (Len(G.nodes) + 1))]

\* The characters of one part of a name, cut at each "|".
PipeSplit(part) ==
  CASE part = "js|use|a" -> <<"js", "|", "use", "|", "a">> [] OTHER -> <<part>>

\* The pieces of a sequence of strings-as-pieces, joined with sep.
RECURSIVE Join(_, _)
Join(pieces, sep) ==
  IF pieces = <<>> THEN <<>>
  ELSE IF Len(pieces) = 1 THEN pieces[1]
  ELSE pieces[1] \o <<sep>> \o Join(Tail(pieces), sep)

\* An id as the string it is: names joined by "/", their parts by ".".
IdString(id) ==
  Join([i \in 1..Len(id) |->
          Join([k \in 1..Len(id[i]) |-> PipeSplit(id[i][k])], ".")], "/")

\* const key = `${s}|${ty}|${t}`
LinkKey(s, ty, t) == IdString(s) \o <<"|", ty, "|">> \o IdString(t)

ensureLink(G, sourceId, targetId, type) ==
  LET ty == IF type = "" THEN "use" ELSE type
      key == LinkKey(sourceId, ty, targetId)
  IN IF sourceId = <<>> \/ targetId = <<>> THEN G
     ELSE IF key \in G.linkIndex THEN G
     ELSE [G EXCEPT !.links = Append(@, [source |-> sourceId, target |-> targetId, type |-> ty]),
                    !.linkIndex = @ \cup {key}]

\* name === "Dockerfile" || name === "Makefile" || name === "LICENSE"
isSpecialNoExt(name) == name \in { <<"Dockerfile">>, <<"Makefile">>, <<"LICENSE">> }

\* !isSpecialNoExt && ext && !ASSET_EXT_ALLOW.has(ext): the file is left out.
FilteredOut(name) ==
  LET e == ExtName(name)
      ext == IF e = <<>> THEN <<>> ELSE <<ToLowerCase(e[1])>>
  IN ~isSpecialNoExt(name) /\ ext # <<>> /\ ext \notin ASSET_EXT_ALLOW

FileKind(abs) == IF isScriptFile(abs) THEN "file" ELSE "asset"

(***************************************************************************)
(* discoverProjectSkeleton                                                 *)
(***************************************************************************)
preferredDirs ==
  << <<"app">>, <<"src">>, <<"routes">>, <<"controllers">>, <<"services">>, <<"lib">>,
     <<"config">>, <<"data">>, <<"public">>, <<"views">>, <<"static">>, <<"assets">>,
     <<"scripts">>, <<"tests">> >>

topFiles ==
  << <<"package", "json">>, <<"package-lock", "json">>, <<"pnpm-lock", "yaml">>,
     <<"yarn", "lock">>, <<"README", "md">>, <<"readme", "md">>, <<"config", "json">>,
     <<"", "env">> >>

RootId == <<Dot>>

\* The inner loop over one skeleton directory's entries (lines 497-525).
RECURSIVE SkeletonFiles(_, _, _, _, _, _)
SkeletonFiles(G, projectRootAbs, dirAbs, dirId, entries, fileCount) ==
  IF entries = <<>> \/ fileCount >= MAX_SKELETON_FILES_PER_DIR THEN G
  ELSE LET name == Head(entries)
           childAbs == Append(dirAbs, name)
           childId == toProjectRelativeId(projectRootAbs, childAbs)
       IN IF \/ name \in SKIP_NAMES
             \/ StartsWithDot(name)
             \/ SafeStat(childAbs) # "file"
             \/ FilteredOut(name)
          THEN SkeletonFiles(G, projectRootAbs, dirAbs, dirId, Tail(entries), fileCount)
          ELSE SkeletonFiles(
                 ensureLink(ensureNode(G, Placeholder(childId, FileKind(childAbs))),
                            dirId, childId, "include"),
                 projectRootAbs, dirAbs, dirId, Tail(entries), fileCount + 1)

\* The loop over preferredDirs (lines 467-528).
RECURSIVE SkeletonDirs(_, _, _, _)
SkeletonDirs(G, projectRootAbs, dirNames, addedDirs) ==
  IF dirNames = <<>> \/ addedDirs >= MAX_SKELETON_DIRS THEN G
  ELSE LET dirName == Head(dirNames)
           dirAbs == Append(projectRootAbs, dirName)
           dirId == toProjectRelativeId(projectRootAbs, dirAbs)
       IN IF dirName \in SKIP_NAMES \/ SafeStat(dirAbs) # "dir"
          THEN SkeletonDirs(G, projectRootAbs, Tail(dirNames), addedDirs)
          ELSE SkeletonDirs(
                 SkeletonFiles(
                   ensureLink(ensureNode(G, Placeholder(dirId, "dir")), RootId, dirId, "include"),
                   projectRootAbs, dirAbs, dirId, ReaddirSync(dirAbs), 0),
                 projectRootAbs, Tail(dirNames), addedDirs + 1)

\* The loop over topFiles (lines 542-560).
RECURSIVE SkeletonTopFiles(_, _, _)
SkeletonTopFiles(G, projectRootAbs, names) ==
  IF names = <<>> THEN G
  ELSE LET abs == Append(projectRootAbs, Head(names))
           id == toProjectRelativeId(projectRootAbs, abs)
       IN IF SafeStat(abs) # "file" THEN SkeletonTopFiles(G, projectRootAbs, Tail(names))
          ELSE SkeletonTopFiles(
                 ensureLink(ensureNode(G, Placeholder(id, "asset")), RootId, id, "include"),
                 projectRootAbs, Tail(names))

discoverProjectSkeleton(G, projectRootAbs) ==
  SkeletonTopFiles(
    SkeletonDirs(ensureNode(G, Placeholder(RootId, "root")), projectRootAbs, preferredDirs, 0),
    projectRootAbs, topFiles)

(***************************************************************************)
(* Project trees the runs are checked on                                   *)
(***************************************************************************)
Rel(segs) == [scheme |-> "", abs |-> FALSE, segs |-> segs, suffix |-> ""]
Web(segs) == [scheme |-> "", abs |-> TRUE, segs |-> segs, suffix |-> ""]
Url(segs) == [scheme |-> "http", abs |-> FALSE, segs |-> segs, suffix |-> ""]

Code(lines, branches, header, imports, refs) ==
  [lines |-> lines, branches |-> branches, header |-> header, imports |-> imports, refs |-> refs,
   broken |-> FALSE]

\* The same text with a syntax error the parser cannot recover from; its refs
\* are then the path-like quoted strings alone.
Broken(code) == [code EXCEPT !.broken = TRUE]

EmptyCode == Code(0, 0, "", <<>>, <<>>)

EntryCodes ==
  { Code(5, 2, "entry", <<>>, <<>>),
    Code(5, 2, "entry", <<Rel(<<Dot, <<"nothere">>>>)>>, <<Rel(<<Dot, nMissing>>)>>),
    Code(5, 2, "entry", <<Rel(<<Dot, nAStem>>)>>, <<>>),
    Code(5, 2, "entry", <<[Rel(<<Dot, nA>>) EXCEPT !.suffix = "?v=1"], Rel(<<Dot, nAStem>>)>>,
         <<Rel(<<Dot, nA>>)>>),
    Code(5, 2, "entry", <<>>, <<Rel(<<Dot, nPublic>>)>>),
    Code(5, 2, "entry", <<Rel(<<Dot, nAStem>>)>>, <<Rel(<<Dot>>)>>),
    Code(5, 2, "entry", <<>>, <<Rel(<<Dot>>)>>),
    Code(5, 2, "entry",
         <<Rel(<<DotDot, nSecret>>), Rel(<<nExpress>>), Web(<<nApp>>), Url(<<nExpress>>)>>,
         <<Rel(<<DotDot, nSecret>>), Url(<<nExpress>>), Web(<<nProj, nA>>)>>),
    Code(5, 2, "entry", <<Rel(<<Dot, nAStem>>)>>, <<Rel(<<Dot, nPublic>>), Rel(<<nPublic, nApp>>)>>),
    Code(5, 2, "entry", <<Rel(<<Dot, nDotsFoo>>)>>, <<>>) }

ACodes ==
  { EmptyCode,
    Code(3, 1, "a", <<Rel(<<Dot, nServer>>)>>, <<>>),
    Code(3, 0, "", <<Rel(<<Dot, <<"server">>>>)>>, <<Rel(<<Dot, nPublic, nCss>>)>>),
    Broken(Code(3, 1, "a", <<Rel(<<Dot, nApp>>), Rel(<<Dot, nPublic, nApp>>)>>, <<>>)) }

AppCodes ==
  { Code(2, 0, "", <<>>, <<>>),
    Code(2, 1, "app", <<Rel(<<DotDot, nA>>), Rel(<<Dot, nApp>>)>>, <<>>) }

IndexCodes ==
  { Code(4, 0, "", <<>>, <<>>),
    Code(4, 0, "", <<>>, <<Rel(<<Dot>>)>>),                      \* its own directory
    Code(4, 0, "", <<>>, <<Rel(<<DotDot>>)>>),                   \* the parent directory
    Code(4, 0, "", <<>>, <<Rel(<<Dot, nCss>>)>>),                \* a sub-directory
    Code(4, 0, "", <<Rel(<<Dot, nApp>>)>>,
         <<Rel(<<nApp>>), Web(<<nCss, nSite>>), Rel(<<DotDot, nA>>)>>) }

SiteCodes ==
  { Code(1, 0, "", <<>>, <<>>),
    Code(1, 0, "", <<>>, <<Rel(<<DotDot>>)>>) }                  \* the directory above css/

\* Optional entries and permission faults of a tree.
Flags ==
  { [notes |-> n, pkg |-> p, unreadable |-> {}] : n \in BOOLEAN, p \in BOOLEAN }
  \cup { [notes |-> FALSE, pkg |-> TRUE, unreadable |-> u] : u \in { {AAbs}, {IndexAbs}, {EntryAbs} } }

MkFs(e, a, p, h, s, f) ==
  [entry |-> EntryAbs,
   dirs |-> { <<>>, Root, PublicAbs, CssAbs, ModulesAbs },
   files |-> { EntryAbs, AAbs, IndexAbs, AppAbs, SiteAbs, SecretAbs, EnvAbs, DotsFooAbs }
             \cup (IF f.notes THEN {NotesAbs} ELSE {})
             \cup (IF f.pkg THEN {PkgAbs} ELSE {}),
   unreadable |-> f.unreadable,
   content |-> [x \in { EntryAbs, AAbs, IndexAbs, AppAbs, SiteAbs, SecretAbs, EnvAbs, NotesAbs,
                         PkgAbs, DotsFooAbs } |->
                  CASE x = EntryAbs -> e
                    [] x = AAbs -> a
                    [] x = AppAbs -> p
                    [] x = IndexAbs -> h
                    [] x = SiteAbs -> s
                    [] OTHER -> EmptyCode]]

\* The tree of the worked example: app/server.js imports ./routes/apps.js,
\* which imports and references nothing.
ExampleTrees ==
  { [entry |-> AppServerAbs,
     dirs |-> { <<>>, Root, AppDirAbs, RoutesAbs },
     files |-> { AppServerAbs, AppsAbs } \cup (IF pkg THEN {PkgAbs} ELSE {}),
     unreadable |-> {},
     content |-> [x \in { AppServerAbs, AppsAbs, PkgAbs } |->
                    CASE x = AppServerAbs -> Code(5, 2, "server", <<Rel(<<Dot, nRoutes, nApps>>)>>, <<>>)
                      [] x = AppsAbs -> Code(3, 1, "apps", <<>>, <<>>)
                      [] OTHER -> EmptyCode]] : pkg \in BOOLEAN }

\* A tree whose entry references the directory ./assets, which holds more
\* image files than one directory expansion takes.
ManyTree ==
  [entry |-> EntryAbs,
   dirs |-> { <<>>, Root, AssetsAbs },
   files |-> { EntryAbs } \cup { Append(AssetsAbs, ManyNames[i]) : i \in DOMAIN ManyNames },
   unreadable |-> {},
   content |-> [x \in { EntryAbs } |->
                  Code(5, 2, "entry", <<>>, <<Rel(<<Dot, <<"assets">>>>)>>)]]

FsUniverse ==
  { MkFs(e, a, p, h, s, f) :
      e \in EntryCodes, a \in ACodes, p \in AppCodes, h \in IndexCodes, s \in SiteCodes, f \in Flags }
  \cup ExampleTrees \cup { ManyTree }

(***************************************************************************)
(* Live change feed: module state of liveChangeFeed.js, and of the copy    *)
(* of it that routes/analyze.js carries.  A run token is the number of the *)
(* activation that issued it, 0 standing for null; a root is a string, ""  *)
(* standing for null.                                                      *)
(***************************************************************************)
Clients == 1..MaxClients
WatchRoots == {"r1", "r2"}
NoRoot == ""
NoToken == 0

FeedVars == <<impl, clients, sock, watcher, watches, activeAnalysis, tasks, lastCast, errAt, ui,
              persisted, shell, wire, walk>>

\* let activeAnalysis = { appId: null, rootAbs: null, ..., runToken: null };
NoAnalysis == [rootAbs |-> NoRoot, runToken |-> NoToken]

NoCast == [type |-> "", runToken |-> NoToken, watch |-> 0, before |-> <<>>, up |-> {},
           got |-> {}, after |-> <<>>]

\* let currentRunToken = null; no node is marked as changed
\* no syntax tree is being traversed
NoWalk == [ast |-> <<>>, next |-> 1, out |-> [complexity |-> 0]]

\* let analyzeInFlight = false; let analyzePending = false; no request is out
Instances == {"u1", "u2"}
ShellStart == [u \in Instances |->
                 [analyzeInFlight |-> FALSE, analyzePending |-> FALSE, appSelect |-> "",
                  at |-> "idle", currentRunToken |-> NoToken, sse |-> FALSE,
                  startedBy |-> ""]]
NoWire == [post |-> [u \in Instances |-> <<>>], sse |-> [u \in Instances |-> <<>>]]

UiStart == [currentRunToken |-> NoToken, marked |-> {},
            last |-> [type |-> "", runToken |-> NoToken, seen |-> NoToken, applied |-> FALSE]]

\* const clients = new Set(); let watcher = null;
FeedStart ==
  /\ clients = <<>>
  /\ sock = [c \in Clients |-> "new"]
  /\ watcher = 0
  /\ watches = <<>>
  /\ activeAnalysis = NoAnalysis
  /\ tasks = <<>>
  /\ lastCast = NoCast
  /\ errAt = -1
  /\ persisted = NoAnalysis
  /\ shell = ShellStart
  /\ wire = NoWire
  /\ walk = NoWalk

FeedIdle ==
  /\ impl = "liveChangeFeed"
  /\ FeedStart
  /\ ui = UiStart

(***************************************************************************)
(* build(): buildMetricsFromEntrypoint({ projectRoot: Root, entryAbs })    *)
(***************************************************************************)
NoCur == [abs |-> Null, id |-> <<>>, refs |-> <<>>, imports |-> <<>>]
NoPayload == [nodes |-> <<>>, links |-> <<>>]
IdleRq == [from |-> Null, spec |-> Rel(<<>>), root |-> Null, out |-> Null, done |-> FALSE]

\* As StartBuild, but with the visited set living across runs.
StartBuildKeepsVisited ==
  /\ pc' = "dequeue"
  /\ visited' = visited
  /\ nodes' = <<>>
  /\ links' = <<>>
  /\ queue' = <<fs.entry>>
  /\ nodeIndex' = <<>>
  /\ linkIndex' = {}
  /\ cur' = NoCur
  /\ stack' = <<>>
  /\ failure' = ""
  /\ atLoopExit' = [nodes |-> 0, links |-> 0]

\* Lines 122-133: the fresh traversal state of one run.
StartBuild ==
  /\ pc' = "dequeue"
  /\ visited' = {}
  /\ nodes' = <<>>
  /\ links' = <<>>
  /\ queue' = <<fs.entry>>
  /\ nodeIndex' = <<>>
  /\ linkIndex' = {}
  /\ cur' = NoCur
  /\ stack' = <<>>
  /\ failure' = ""
  /\ atLoopExit' = [nodes |-> 0, links |-> 0]

Init ==
  /\ fs \in FsUniverse
  /\ pc = "dequeue"
  /\ visited = {}
  /\ nodes = <<>>
  /\ links = <<>>
  /\ queue = <<fs.entry>>
  /\ nodeIndex = <<>>
  /\ linkIndex = {}
  /\ cur = NoCur
  /\ stack = <<>>
  /\ failure = ""
  /\ atLoopExit = [nodes |-> 0, links |-> 0]
  /\ run = 1
  /\ prev = NoPayload
  /\ scanned = {}
  /\ rq = IdleRq
  /\ requested = {}
  /\ FeedIdle

SetGraph(G) ==
  /\ nodeIndex' = G.nodeIndex
  /\ nodes' = G.nodes
  /\ linkIndex' = G.linkIndex
  /\ links' = G.links

Harness == <<rq, requested, FeedVars, scanned>>

\* A loop head without the visited check: a visited path is read again.
DequeueVisitedRereads ==
  /\ pc = "dequeue" /\ queue # <<>>
  /\ Head(queue) \in visited
  /\ Head(queue) \notin fs.unreadable /\ ExistsFile(Head(queue))
  /\ LET abs == Head(queue)
         parsed == parseFile(fs.content[abs], abs)
         nodeId == toProjectRelativeId(Root, abs)
     IN /\ queue' = Tail(queue)
        /\ cur' = [abs |-> abs, id |-> nodeId, refs |-> parsed.fileRefsAbs,
                   imports |-> parsed.imports]
        /\ pc' = "refs"
  /\ UNCHANGED <<fs, visited, nodes, links, nodeIndex, linkIndex, stack, failure,
                 atLoopExit, run, prev, Harness>>

\* if (visited.has(abs)) continue;
DequeueVisited ==
  /\ pc = "dequeue" /\ queue # <<>>
  /\ Head(queue) \in visited
  /\ queue' = Tail(queue)
  /\ UNCHANGED <<fs, pc, visited, nodes, links, nodeIndex, linkIndex, cur, stack, failure,
                 atLoopExit, run, prev, Harness>>

\* readUtf8(abs) throws: nothing in the loop catches it, build() rejects.
DequeueReadThrows ==
  /\ pc = "dequeue" /\ queue # <<>>
  /\ Head(queue) \notin visited
  /\ Head(queue) \in fs.unreadable \/ ~ExistsFile(Head(queue))
  /\ queue' = Tail(queue)
  /\ visited' = visited \cup {Head(queue)}
  /\ cur' = [NoCur EXCEPT !.abs = Head(queue)]
  /\ pc' = "failed"
  /\ failure' = "ReadError"
  /\ UNCHANGED <<fs, nodes, links, nodeIndex, linkIndex, stack, atLoopExit, run, prev, Harness>>

\* Lines 141-163: shift, mark visited, read, parse, emit the file-level node.
DequeueFile ==
  /\ pc = "dequeue" /\ queue # <<>>
  /\ Head(queue) \notin visited
  /\ Head(queue) \notin fs.unreadable /\ ExistsFile(Head(queue))
  /\ LET abs == Head(queue)
         parsed == parseFile(fs.content[abs], abs)
         nodeId == toProjectRelativeId(Root, abs)
     IN /\ queue' = Tail(queue)
        /\ visited' = visited \cup {abs}
        /\ SetGraph(ensureNode(Graph, [id |-> nodeId, file |-> nodeId, lines |-> parsed.lines,
                                       complexity |-> parsed.complexity,
                                       headerComment |-> parsed.headerComment, kind |-> ""]))
        /\ cur' = [abs |-> abs, id |-> nodeId, refs |-> parsed.fileRefsAbs,
                   imports |-> parsed.imports]
        /\ pc' = "refs"
  /\ UNCHANGED <<fs, stack, failure, atLoopExit, run, prev, Harness>>

(***************************************************************************)
(* Secondary references: the for-loop of lines 186-255 and its copy in     *)
(* tryParseReferencedTextFile (lines 718-776).                             *)
(***************************************************************************)
\* What one reference is taken for: "skip", "dir" or "file".
RefClass(ref) ==
  LET refAbs == toAbsFromRelMaybe(Root, ref)
  IN IF refAbs = Null THEN "skip"
     ELSE IF ~isInsideRoot(Root, refAbs) THEN "skip"
     ELSE IF ~ExistsSync(refAbs) THEN "skip"
     ELSE SafeStat(refAbs)

\* ensureNode + ensureLink for a referenced directory or file.
RefGraph(G, parentId, refAbs, kind) ==
  LET refId == toProjectRelativeId(Root, refAbs)
  IN ensureLink(ensureNode(G, Placeholder(refId, kind)), parentId, refId, "include")

\* queue.push(refAbs) when it is a script not yet visited.
EnqueueScript(q, abs) == IF isScriptFile(abs) /\ abs \notin visited THEN Append(q, abs) ELSE q

\* A frame of expandDirectoryBounded: its arguments and loop variables.
ExpandFrame(dirAbs, dirId, depth) ==
  [fn |-> "expand", abs |-> dirAbs, id |-> dirId, depth |-> depth,
   entries |-> IF depth >= MAX_DIR_DEPTH THEN <<>> ELSE ReaddirSync(dirAbs),
   count |-> 0, refs |-> <<>>]

\* A frame of tryParseReferencedTextFile: an unreadable file returns at once.
ParseFrame(fileAbs, parentId) ==
  [fn |-> "parse", abs |-> fileAbs, id |-> parentId, depth |-> 0, entries |-> <<>>, count |-> 0,
   refs |-> IF fileAbs \in fs.unreadable THEN <<>>
            ELSE parseFile(fs.content[fileAbs], fileAbs).fileRefsAbs]

Top == stack[Len(stack)]

\* The stack with the top frame's loop advanced.
Advance(f) == [stack EXCEPT ![Len(stack)] = f]

\* A nested call.  When the engine's stack is exhausted the RangeError is
\* raised wherever the next frame is needed: inside the callee's try block
\* around its fs call (the callee then returns having done nothing), or
\* outside any try block (the error leaves build()).
Call(base, frame) ==
  \/ /\ Len(base) < MaxCallDepth
     /\ stack' = Append(base, frame)
     /\ pc' = "call"
     /\ failure' = failure
  \/ /\ Len(base) >= MaxCallDepth
     /\ stack' = base
     /\ pc' = "call"
     /\ failure' = failure
  \/ /\ Len(base) >= MaxCallDepth
     /\ stack' = <<>>
     /\ pc' = "failed"
     /\ failure' = "RangeError"

RefSkip ==
  /\ pc = "refs" /\ cur.refs # <<>>
  /\ RefClass(Head(cur.refs)) \in {"skip", "none"}
  /\ cur' = [cur EXCEPT !.refs = Tail(@)]
  /\ UNCHANGED <<fs, pc, visited, nodes, links, queue, nodeIndex, linkIndex, stack, failure,
                 atLoopExit, run, prev, Harness>>

\* Lines 200-231.
RefDir ==
  /\ pc = "refs" /\ cur.refs # <<>>
  /\ RefClass(Head(cur.refs)) = "dir"
  /\ LET refAbs == toAbsFromRelMaybe(Root, Head(cur.refs))
     IN /\ SetGraph(RefGraph(Graph, cur.id, refAbs, "dir"))
        /\ Call(<<>>, ExpandFrame(refAbs, toProjectRelativeId(Root, refAbs), 0))
  /\ cur' = [cur EXCEPT !.refs = Tail(@)]
  /\ UNCHANGED <<fs, visited, queue, atLoopExit, run, prev, Harness>>

\* Lines 236-254.
RefFile ==
  /\ pc = "refs" /\ cur.refs # <<>>
  /\ RefClass(Head(cur.refs)) = "file"
  /\ LET refAbs == toAbsFromRelMaybe(Root, Head(cur.refs))
     IN /\ SetGraph(RefGraph(Graph, cur.id, refAbs, FileKind(refAbs)))
        /\ queue' = EnqueueScript(queue, refAbs)
  /\ cur' = [cur EXCEPT !.refs = Tail(@)]
  /\ UNCHANGED <<fs, pc, visited, stack, failure, atLoopExit, run, prev, Harness>>

RefsDone ==
  /\ pc = "refs" /\ cur.refs = <<>>
  /\ pc' = "imports"
  /\ UNCHANGED <<fs, visited, nodes, links, queue, nodeIndex, linkIndex, cur, stack, failure,
                 atLoopExit, run, prev, Harness>>

(***************************************************************************)
(* expandDirectoryBounded (lines 572-685), one loop iteration per step     *)
(***************************************************************************)
Return ==
  /\ pc = "call"
  /\ \/ Top.fn = "expand" /\ (Top.entries = <<>> \/ Top.count >= MAX_DIR_ENTRIES)
     \/ Top.fn = "parse" /\ Top.refs = <<>>
  /\ stack' = Front(stack)
  /\ pc' = IF Len(stack) = 1 THEN "refs" ELSE "call"
  /\ UNCHANGED <<fs, visited, nodes, links, queue, nodeIndex, linkIndex, cur, failure,
                 atLoopExit, run, prev, Harness>>

\* The loop head without the entry-count cap.
ExpandLiveUncapped == pc = "call" /\ Top.fn = "expand" /\ Top.entries # <<>>

ExpandLive == pc = "call" /\ Top.fn = "expand" /\ Top.entries # <<>> /\ Top.count < MAX_DIR_ENTRIES

ChildAbs == Append(Top.abs, Head(Top.entries))

\* How the loop body treats the next entry: "skip", "dir", "text" or "file".
ChildClass ==
  LET name == Head(Top.entries)
      st == SafeStat(ChildAbs)
  IN IF name \in SKIP_NAMES \/ StartsWithDot(name) \/ st = "none" THEN "skip"
     ELSE IF st = "dir" THEN "dir"
     ELSE IF FilteredOut(name) THEN "skip"
     ELSE IF isScriptFile(ChildAbs) /\ ChildAbs \notin visited THEN "file"
     ELSE IF LowerExt(ChildAbs) \in PARSEABLE_TEXT_EXT THEN "text"
     ELSE "file"

ExpandSkip ==
  /\ ExpandLive /\ ChildClass = "skip"
  /\ stack' = Advance([Top EXCEPT !.entries = Tail(@)])
  /\ UNCHANGED <<fs, pc, visited, nodes, links, queue, nodeIndex, linkIndex, cur, failure,
                 atLoopExit, run, prev, Harness>>

\* Lines 607-637: a child directory, expanded one level deeper.
ExpandDir ==
  /\ ExpandLive /\ ChildClass = "dir"
  /\ LET childId == toProjectRelativeId(Root, ChildAbs)
     IN /\ SetGraph(ensureLink(ensureNode(Graph, Placeholder(childId, "dir")),
                               Top.id, childId, "include"))
        /\ Call(Advance([Top EXCEPT !.entries = Tail(@), !.count = @ + 1]),
                ExpandFrame(ChildAbs, childId, Top.depth + 1))
  /\ UNCHANGED <<fs, visited, queue, cur, atLoopExit, run, prev, Harness>>

\* Lines 642-668: a child file that is not handed to the text scan.
ExpandFile ==
  /\ ExpandLive /\ ChildClass = "file"
  /\ LET childId == toProjectRelativeId(Root, ChildAbs)
     IN SetGraph(ensureLink(ensureNode(Graph, Placeholder(childId, FileKind(ChildAbs))),
                            Top.id, childId, "include"))
  /\ queue' = EnqueueScript(queue, ChildAbs)
  /\ stack' = Advance([Top EXCEPT !.entries = Tail(@), !.count = @ + 1])
  /\ UNCHANGED <<fs, pc, visited, cur, failure, atLoopExit, run, prev, Harness>>

\* Lines 642-683: a lightweight text child, scanned for further references.
ExpandText ==
  /\ ExpandLive /\ ChildClass = "text"
  /\ LET childId == toProjectRelativeId(Root, ChildAbs)
     IN /\ SetGraph(ensureLink(ensureNode(Graph, Placeholder(childId, FileKind(ChildAbs))),
                               Top.id, childId, "include"))
        /\ Call(Advance([Top EXCEPT !.entries = Tail(@), !.count = @ + 1]),
                ParseFrame(ChildAbs, childId))
  /\ scanned' = IF Len(stack') > Len(stack) THEN scanned \cup {ChildAbs} ELSE scanned
  /\ UNCHANGED <<fs, visited, queue, cur, atLoopExit, run, prev, rq, requested, FeedVars>>

(***************************************************************************)
(* tryParseReferencedTextFile (lines 691-777), one reference per step      *)
(***************************************************************************)
ParseLive == pc = "call" /\ Top.fn = "parse" /\ Top.refs # <<>>

ParseRefSkip ==
  /\ ParseLive /\ RefClass(Head(Top.refs)) \in {"skip", "none"}
  /\ stack' = Advance([Top EXCEPT !.refs = Tail(@)])
  /\ UNCHANGED <<fs, pc, visited, nodes, links, queue, nodeIndex, linkIndex, cur, failure,
                 atLoopExit, run, prev, Harness>>

\* Lines 727-756: the referenced directory is expanded again from depth 0.
ParseRefDir ==
  /\ ParseLive /\ RefClass(Head(Top.refs)) = "dir"
  /\ LET refAbs == toAbsFromRelMaybe(Root, Head(Top.refs))
     IN /\ SetGraph(RefGraph(Graph, Top.id, refAbs, "dir"))
        /\ Call(Advance([Top EXCEPT !.refs = Tail(@)]),
                ExpandFrame(refAbs, toProjectRelativeId(Root, refAbs), 0))
  /\ UNCHANGED <<fs, visited, queue, cur, atLoopExit, run, prev, Harness>>

\* Lines 758-775.
ParseRefFile ==
  /\ ParseLive /\ RefClass(Head(Top.refs)) = "file"
  /\ LET refAbs == toAbsFromRelMaybe(Root, Head(Top.refs))
     IN /\ SetGraph(RefGraph(Graph, Top.id, refAbs, FileKind(refAbs)))
        /\ queue' = EnqueueScript(queue, refAbs)
  /\ stack' = Advance([Top EXCEPT !.refs = Tail(@)])
  /\ UNCHANGED <<fs, pc, visited, cur, failure, atLoopExit, run, prev, Harness>>

(***************************************************************************)
(* Dependency edges (lines 261-272), loop exit, skeleton, return           *)
(***************************************************************************)
ImportSkip ==
  /\ pc = "imports" /\ cur.imports # <<>>
  /\ resolveImports(cur.abs, Head(cur.imports), Root) = Null
  /\ cur' = [cur EXCEPT !.imports = Tail(@)]
  /\ UNCHANGED <<fs, pc, visited, nodes, links, queue, nodeIndex, linkIndex, stack, failure,
                 atLoopExit, run, prev, Harness>>

ImportLink ==
  /\ pc = "imports" /\ cur.imports # <<>>
  /\ LET resolvedAbs == resolveImports(cur.abs, Head(cur.imports), Root)
     IN /\ resolvedAbs # Null
        /\ SetGraph(ensureLink(Graph, cur.id, toProjectRelativeId(Root, resolvedAbs), "use"))
        /\ queue' = IF resolvedAbs \notin visited THEN Append(queue, resolvedAbs) ELSE queue
  /\ cur' = [cur EXCEPT !.imports = Tail(@)]
  /\ UNCHANGED <<fs, pc, visited, stack, failure, atLoopExit, run, prev, Harness>>

ImportsDone ==
  /\ pc = "imports" /\ cur.imports = <<>>
  /\ pc' = "dequeue"
  /\ UNCHANGED <<fs, visited, nodes, links, queue, nodeIndex, linkIndex, cur, stack, failure,
                 atLoopExit, run, prev, Harness>>

\* while (queue.length > 0) ends.
LoopExit ==
  /\ pc = "dequeue" /\ queue = <<>>
  /\ pc' = "exit"
  /\ atLoopExit' = [nodes |-> Len(nodes), links |-> Len(links)]
  /\ UNCHANGED <<fs, visited, nodes, links, queue, nodeIndex, linkIndex, cur, stack, failure,
                 run, prev, Harness>>

SkeletonTriggerEither(nNodes, nLinks) == nNodes <= 5 \/ nLinks <= 1

\* if (nodes.length <= 5 && links.length <= 1)
SkeletonTrigger(nNodes, nLinks) == nNodes <= 5 /\ nLinks <= 1

Skeleton ==
  /\ pc = "exit"
  /\ SkeletonTrigger(Len(nodes), Len(links))
  /\ SetGraph(discoverProjectSkeleton(Graph, Root))
  /\ pc' = "done"
  /\ UNCHANGED <<fs, visited, queue, cur, stack, failure, atLoopExit, run, prev, Harness>>

NoSkeleton ==
  /\ pc = "exit"
  /\ ~SkeletonTrigger(Len(nodes), Len(links))
  /\ pc' = "done"
  /\ UNCHANGED <<fs, visited, nodes, links, queue, nodeIndex, linkIndex, cur, stack, failure,
                 atLoopExit, run, prev, Harness>>

\* The next build() on the unchanged tree, from the same entrypoint.
Rebuild ==
  /\ pc = "done" /\ run < MaxRuns
  /\ prev' = [nodes |-> nodes, links |-> links]
  /\ run' = run + 1
  /\ StartBuild
  /\ scanned' = {}
  /\ UNCHANGED <<fs, rq, requested, FeedVars>>

Next ==
  \/ DequeueVisited \/ DequeueReadThrows \/ DequeueFile
  \/ RefSkip \/ RefDir \/ RefFile \/ RefsDone
  \/ Return \/ ExpandSkip \/ ExpandDir \/ ExpandFile \/ ExpandText
  \/ ParseRefSkip \/ ParseRefDir \/ ParseRefFile
  \/ ImportSkip \/ ImportLink \/ ImportsDone
  \/ LoopExit \/ Skeleton \/ NoSkeleton \/ Rebuild

Spec == Init /\ [][Next]_vars

(***************************************************************************)
(* Resolver harness: one resolveImports call on drawn inputs               *)
(***************************************************************************)
ResolveSpecs ==
  { Rel(<<>>), Rel(<<nExpress>>), Url(<<nExpress>>),
    Rel(<<Dot, nA>>), Rel(<<Dot, nAStem>>), [Rel(<<Dot, nA>>) EXCEPT !.suffix = "#top"],
    Rel(<<Dot, nMissing>>), Rel(<<Dot, nPublic>>), Rel(<<DotDot>>), Rel(<<DotDot, nA>>),
    Rel(<<Dot, <<"a", "test">>>>), Rel(<<Dot, <<"a", "test", "js">>>>),
    Rel(<<DotDot, nSecret>>), Rel(<<DotDot, <<"secret">>>>), Rel(<<DotDot, DotDot, nSecret>>),
    Rel(<<DotDot, DotDot, DotDot, nSecret>>),
    Web(<<nApp>>), Web(<<nCss, nSite>>), Web(<<nCss, <<"site">>>>), Web(<<nPublic>>),
    Web(<<DotDot, DotDot, nSecret>>), Web(<<DotDot, nA>>) }

ResolveFroms == { EntryAbs, AppAbs, SiteAbs }

ResolveRoots == { Root, PublicAbs }

ResolveTrees ==
  { [MkFs(EmptyCode, EmptyCode, EmptyCode, EmptyCode, EmptyCode,
          [notes |-> n, pkg |-> FALSE, unreadable |-> {}])
       EXCEPT !.files = @ \cup (IF t THEN {ATestAbs} ELSE {})] : n \in BOOLEAN, t \in BOOLEAN }

IdleBuild ==
  /\ pc = "idle"
  /\ visited = {}
  /\ nodes = <<>>
  /\ links = <<>>
  /\ queue = <<>>
  /\ nodeIndex = <<>>
  /\ linkIndex = {}
  /\ cur = NoCur
  /\ stack = <<>>
  /\ failure = ""
  /\ atLoopExit = [nodes |-> 0, links |-> 0]
  /\ run = 0
  /\ prev = NoPayload
  /\ scanned = {}

InitResolve ==
  /\ fs \in ResolveTrees
  /\ IdleBuild
  /\ rq \in { [from |-> f, spec |-> sp, root |-> r, out |-> Null, done |-> FALSE] :
                f \in ResolveFroms, sp \in ResolveSpecs, r \in ResolveRoots }
  /\ requested = {}
  /\ FeedIdle

ResolveCall ==
  /\ pc = "idle" /\ rq.from # Null /\ ~rq.done
  /\ rq' = [rq EXCEPT !.out = resolveImports(rq.from, rq.spec, rq.root), !.done = TRUE]
  /\ UNCHANGED <<fs, pc, visited, nodes, links, queue, nodeIndex, linkIndex, cur, stack, failure,
                 atLoopExit, run, prev, requested, FeedVars, scanned>>

NextResolve == ResolveCall

SpecResolve == InitResolve /\ [][NextResolve]_vars

(***************************************************************************)
(* Link harness: any sequence of ensureLink calls                          *)
(***************************************************************************)
LinkIds == { <<>>, <<nA>>, <<nPipe>> }

LinkTypes == { "", "use", "include" }

InitLinks ==
  /\ fs \in ResolveTrees /\ NotesAbs \notin fs.files
  /\ IdleBuild
  /\ rq = IdleRq
  /\ requested = {}
  /\ FeedIdle

EnsureLinkCall ==
  /\ pc = "idle" /\ rq.from = Null
  /\ Len(links) < MaxLinkCalls
  /\ \E src \in LinkIds, tgt \in LinkIds, ty \in LinkTypes :
       /\ SetGraph(ensureLink(Graph, src, tgt, ty))
       /\ requested' = IF src = <<>> \/ tgt = <<>> THEN requested
                       ELSE requested \cup {<<src, IF ty = "" THEN "use" ELSE ty, tgt>>}
  /\ UNCHANGED <<fs, pc, visited, queue, cur, stack, failure, atLoopExit, run, prev, rq, FeedVars,
                 scanned>>

NextLinks == EnsureLinkCall

SpecLinks == InitLinks /\ [][NextLinks]_vars

(***************************************************************************)
(* Properties                                                              *)
(***************************************************************************)
NodeIds == { nodes[i].id : i \in 1..Len(nodes) }

EntryId == toProjectRelativeId(Root, fs.entry)

UnderRoot(p) == IsPrefix(Root, p)

HasRootNode == \E i \in 1..Len(nodes) : nodes[i].kind = "root"

\* Node ids reachable from the ids in S along links, source to target.
RECURSIVE ReachFrom(_)
ReachFrom(S) ==
  LET more == S \cup { links[i].target : i \in { j \in 1..Len(links) : links[j].source \in S } }
  IN IF more = S THEN S ELSE ReachFrom(more)

\* C1: in the graph a completed build() returns, every link's source and
\* target is the id of some node.
C1_NoDanglingEndpoints ==
  pc = "done" =>
    \A i \in 1..Len(links) : links[i].source \in NodeIds /\ links[i].target \in NodeIds

\* C2: on a tree whose files are all readable, build() runs to completion:
\* it never ends by rejecting (here: by exhausting the stack in the mutual
\* recursion of directory expansion and text-file scanning).
C2_BuildCompletes ==
  fs.unreadable = {} => pc # "failed"

BeginsWithTwoDots(id) == id # <<>> /\ Len(id[1]) >= 3 /\ id[1][1] = "" /\ id[1][2] = ""

NodesStandInsideRoot ==
  \A i \in 1..Len(nodes) :
    /\ nodes[i].id # <<>>
    /\ UnderRoot(Resolve(Root, nodes[i].file))
    /\ ExistsSync(Resolve(Root, nodes[i].file))

QueueInsideRoot == \A i \in 1..Len(queue) : UnderRoot(queue[i])

\* C4 (as stated): no node id begins with "..", every node stands for
\* projectRoot or a path below it, and no path outside projectRoot is ever
\* on the work queue.
C4_NoIdBeginsWithTwoDots ==
  /\ \A i \in 1..Len(nodes) : ~BeginsWithTwoDots(nodes[i].id)
  /\ NodesStandInsideRoot
  /\ QueueInsideRoot

\* C4 (amended): no node id is ".." or begins with "../" (its first path
\* segment is never ".."), every node stands for an existing path that is
\* projectRoot or below it, and no path outside projectRoot is ever on the
\* work queue.
C4_Containment ==
  /\ \A i \in 1..Len(nodes) : nodes[i].id # <<>> /\ nodes[i].id[1] # DotDot
  /\ NodesStandInsideRoot
  /\ QueueInsideRoot

\* a finished run whose entry imported and referenced ../secret.js
C4_Witness ==
  /\ pc = "done"
  /\ \E i \in 1..Len(fs.content[fs.entry].imports) :
       fs.content[fs.entry].imports[i] = Rel(<<DotDot, nSecret>>)
  /\ \E i \in 1..Len(fs.content[fs.entry].refs) :
       fs.content[fs.entry].refs[i] = Rel(<<DotDot, nSecret>>)
  /\ Len(nodes) >= 2

\* C5: for a relative or root-absolute specifier resolveImports returns null
\* or an existing file inside projectRoot; a relative specifier whose target
\* exists outside projectRoot yields null.
C5_NoEscape ==
  (rq.done /\ rq.spec.scheme = "" /\ rq.spec.segs # <<>>
           /\ (rq.spec.abs \/ StartsWithDot(rq.spec.segs[1]))) =>
    /\ rq.out = Null \/ (rq.out \in fs.files /\ IsPrefix(rq.root, rq.out))
    /\ LET target == Resolve(Dirname(rq.from), rq.spec.segs)
       IN (~rq.spec.abs /\ target \in fs.files /\ ~IsPrefix(rq.root, target)) => rq.out = Null

C5_Witness ==
  /\ rq.done /\ ~rq.spec.abs /\ rq.spec.segs # <<>>
  /\ Resolve(Dirname(rq.from), rq.spec.segs) = SecretAbs
  /\ SecretAbs \in fs.files
  /\ rq.out = Null

\* C6: a run fails on a read only if the file that could not be read is the
\* entry file; an unreadable import target or script reference is absorbed.
C6_OnlyEntryReadIsFatal ==
  (pc = "failed" /\ failure = "ReadError") => cur.abs = fs.entry

\* C7: at every point no two nodes share an id; every file visited as a
\* primary source has exactly one node, carrying its real lines, complexity
\* and headerComment (also when it was first added as a placeholder); and
\* within a run a node keeps its position and no node is removed.
C7_NoDuplicateIds ==
  \A i, j \in 1..Len(nodes) : nodes[i].id = nodes[j].id => i = j

C7_VisitedHaveRealMetrics ==
  \A abs \in visited :
    (abs \in fs.files /\ abs \notin fs.unreadable) =>
      LET parsed == parseFile(fs.content[abs], abs)
      IN \E i \in 1..Len(nodes) :
           /\ nodes[i].id = toProjectRelativeId(Root, abs)
           /\ nodes[i].lines = parsed.lines
           /\ nodes[i].complexity = parsed.complexity
           /\ nodes[i].headerComment = parsed.headerComment

C7_PositionsKept ==
  run' = run =>
    /\ Len(nodes') >= Len(nodes)
    /\ \A i \in 1..Len(nodes) : nodes'[i].id = nodes[i].id

C7_IdempotentUpgrade ==
  /\ [](C7_NoDuplicateIds /\ C7_VisitedHaveRealMetrics)
  /\ [][C7_PositionsKept]_vars

\* a placeholder (only placeholders carry kind "file") that now has real lines
C7_Witness ==
  \E i \in 1..Len(nodes) :
    /\ nodes[i].kind = "file" /\ nodes[i].lines > 0
    /\ i < Len(nodes)

\* C8: links holds no two entries with the same (source, type, target), and
\* it holds every triple ensureLink was asked for with non-empty endpoints,
\* so use/include between one pair and the two directions are all kept.
C8_LinksDedupedByTriple ==
  /\ \A i, j \in 1..Len(links) : links[i] = links[j] => i = j
  /\ { <<links[i].source, links[i].type, links[i].target>> : i \in 1..Len(links) } = requested

\* C9: in the graph a completed build() returns, every node that traversal
\* added (every node but those the skeleton appended) is reachable from the
\* entry node along links.  Stated for trees without a blank-ended name.
C9_AllReachable ==
  (pc = "done" /\ NotesAbs \notin fs.files) =>
    \A i \in 1..atLoopExit.nodes : nodes[i].id \in ReachFrom({EntryId})

\* C10: the skeleton runs exactly when traversal ended with at most 5 nodes
\* and at most 1 link: then the graph has more than one node and a node of
\* kind "root" (so also for an entry whose references all miss); otherwise
\* nothing is added after traversal and there is no root node.
C10_SkeletonTrigger ==
  pc = "done" =>
    IF atLoopExit.nodes <= 5 /\ atLoopExit.links <= 1
    THEN HasRootNode /\ Len(nodes) > 1
    ELSE ~HasRootNode /\ Len(nodes) = atLoopExit.nodes /\ Len(links) = atLoopExit.links

\* the entry whose only import and only reference name paths that do not exist
C10_Witness ==
  /\ pc = "done"
  /\ fs.content[fs.entry].refs = <<Rel(<<Dot, nMissing>>)>>
  /\ fs.content[fs.entry].imports = <<Rel(<<Dot, <<"nothere">>>>)>>
  /\ atLoopExit.nodes = 1
  /\ HasRootNode

\* C11: built from app/server.js, which imports ./routes/apps.js (no further
\* imports or references), the returned graph has exactly the two nodes
\* app/server.js and app/routes/apps.js and exactly one link, the use link
\* between them.
C11_ExampleGraph ==
  (pc = "done" /\ fs.entry = AppServerAbs) =>
    /\ Len(nodes) = 2
    /\ nodes[1].id = <<nAppDir, nServer>>
    /\ nodes[2].id = <<nAppDir, nRoutes, nApps>>
    /\ links = << [source |-> <<nAppDir, nServer>>, target |-> <<nAppDir, nRoutes, nApps>>,
                   type |-> "use"] >>

IsBroken(abs) == abs \in fs.files /\ isJsLikeExt(LowerExt(abs)) /\ fs.content[abs].broken

Readable(abs) == abs \in fs.files /\ abs \notin fs.unreadable

NodeOf(abs) == nodes[nodeIndex[toProjectRelativeId(Root, abs)]]

HasLink(src, ty, tgt) ==
  \E i \in 1..Len(links) :
    links[i].source = src /\ links[i].type = ty /\ links[i].target = tgt

\* C12: a visited source file that cannot be parsed has a node with its
\* non-empty line count and header comment and is the source of no use link;
\* and in a completed run every visited file has its node, and every import
\* of a visited file that resolves has its use link and a visited target,
\* whether or not another file was broken.
C12_GracefulDegradation ==
  /\ \A abs \in visited :
       (Readable(abs) /\ IsBroken(abs)) =>
         /\ toProjectRelativeId(Root, abs) \in DOMAIN nodeIndex
         /\ NodeOf(abs).lines = fs.content[abs].lines
         /\ NodeOf(abs).headerComment = fs.content[abs].header
         /\ NodeOf(abs).complexity = 0
         /\ \A i \in 1..Len(links) :
              links[i].source = toProjectRelativeId(Root, abs) => links[i].type # "use"
  /\ pc = "done" =>
       \A abs \in visited :
         /\ toProjectRelativeId(Root, abs) \in DOMAIN nodeIndex
         /\ ~IsBroken(abs) =>
              \A i \in 1..Len(fs.content[abs].imports) :
                LET hit == resolveImports(abs, fs.content[abs].imports[i], Root)
                IN (isJsLikeExt(LowerExt(abs)) /\ hit # Null) =>
                     /\ HasLink(toProjectRelativeId(Root, abs), "use", toProjectRelativeId(Root, hit))
                     /\ hit \in visited

\* a completed run that visited the broken a.js and, after it, public/app.js
C12_Witness ==
  /\ pc = "done"
  /\ AAbs \in visited /\ IsBroken(AAbs) /\ NodeOf(AAbs).lines = 3
  /\ AppAbs \in visited
  /\ nodeIndex[<<nA>>] < nodeIndex[<<nPublic, nApp>>]
  /\ NodeOf(AppAbs).lines = 2

(***************************************************************************)
(* Live change feed: operations.                                           *)
(*                                                                         *)
(* Scheduling.  A handler runs to its first await that waits for real      *)
(* input/output; awaits on calls that return without such a wait resume    *)
(* within the same turn and are part of the same action.  The two waits    *)
(* are the close of a watch and the URL probe of POST /analyze.  All calls *)
(* waiting for the close of one watch resume in the turn in which the      *)
(* close completes, in the order in which they began to wait, each running *)
(* to its next await before the next resumes.  A watch that was asked to   *)
(* close raises no further events.                                         *)
(***************************************************************************)
SetOf(seq) == { seq[i] : i \in 1..Len(seq) }

Without(seq, x) == SelectSeq(seq, LAMBDA y : y # x)

BuildIdle ==
  UNCHANGED <<fs, pc, visited, nodes, links, queue, nodeIndex, linkIndex, cur, stack,
              failure, atLoopExit, run, prev, rq, requested, scanned, shell, wire, walk>>

\* send(res, type, payload): res.write throws on a broken connection
sendThrows(res) == sock[res] # "up"

\* A broadcast whose first failed send ends the loop and drops nobody.
RECURSIVE AbortingLoop(_, _, _)
AbortingLoop(order, i, st) ==
  IF i > Len(order) \/ sendThrows(order[i]) THEN st
  ELSE AbortingLoop(order, i + 1, [st EXCEPT !.got = @ \cup {order[i]}])

BroadcastAbortsOnFailure(cs) == AbortingLoop(cs, 1, [clients |-> cs, got |-> {}])

\* for (const res of clients) { try { send(res, ...) } catch { clients.delete(res) } }
RECURSIVE BroadcastLoop(_, _, _)
BroadcastLoop(order, i, st) ==
  IF i > Len(order) THEN st
  ELSE IF sendThrows(order[i])
         THEN BroadcastLoop(order, i + 1, [st EXCEPT !.clients = Without(@, order[i])])
         ELSE BroadcastLoop(order, i + 1, [st EXCEPT !.got = @ \cup {order[i]}])

\* The subscriber set after the broadcast, and the subscribers that were sent the event.
broadcast(cs) == BroadcastLoop(cs, 1, [clients |-> cs, got |-> {}])

\* What one broadcast of an event of this type, with this run token, raised by
\* this watch (0 when raised by an activation), did.
Cast(type, token, w, cs) ==
  [type |-> type, runToken |-> token, watch |-> w, before |-> cs,
   up |-> { c \in SetOf(cs) : sock[c] = "up" }, got |-> broadcast(cs).got,
   after |-> broadcast(cs).clients]

\* watcher.close() is called: the watch stops raising events and begins to close
closeCalled(ws, w) == [ws EXCEPT ![w].st = IF @ = "open" THEN "closing" ELSE @]

\* watcher = chokidar.watch(rootAbs, ...), with the emit and error handlers attached
opened(ws, root, token) == Append(ws, [root |-> root, run |-> token, st |-> "open"])

\* stopWatcher() up to its await.  With no tracked watch it returns at once.
stopWatcherCall(ts) ==
  IF watcher = 0
    THEN /\ UNCHANGED <<watcher, watches>>
         /\ tasks' = ts
    ELSE /\ watches' = closeCalled(watches, watcher)
         /\ tasks' = Append(ts, [kind |-> "stop", w |-> watcher, root |-> NoRoot, run |-> NoToken])
         /\ UNCHANGED watcher

\* startWatcher(rootAbs) up to the await inside the stopWatcher() it calls.  With
\* no tracked watch it goes on, in the same turn, to open the new watch.
startWatcherCall(ts, root, token) ==
  IF watcher = 0
    THEN /\ watches' = IF root = NoRoot THEN watches ELSE opened(watches, root, token)
         /\ watcher' = IF root = NoRoot THEN 0 ELSE Len(watches')
         /\ tasks' = ts
    ELSE /\ watches' = closeCalled(watches, watcher)
         /\ tasks' = Append(ts, [kind |-> "start", w |-> watcher, root |-> root, run |-> token])
         /\ UNCHANGED watcher

\* dropClient(res)
dropClient(res) ==
  /\ clients' = Without(clients, res)
  /\ IF clients' = <<>> THEN stopWatcherCall(tasks) ELSE UNCHANGED <<watcher, watches, tasks>>

\* A GET /events handler that restarts the watch of the active analysis.
ConnectRestartsWatch(c) ==
  /\ sock[c] = "new"
  /\ sock' = [sock EXCEPT ![c] = "up"]
  /\ clients' = Append(clients, c)
  /\ startWatcherCall(tasks, activeAnalysis.rootAbs, activeAnalysis.runToken)
  /\ UNCHANGED <<impl, activeAnalysis, lastCast, errAt, ui, persisted>>
  /\ BuildIdle

\* GET /events: the subscriber is added and greeted with hello
Connect(c) ==
  /\ sock[c] = "new"
  /\ sock' = [sock EXCEPT ![c] = "up"]
  /\ clients' = Append(clients, c)
  /\ UNCHANGED <<impl, watcher, watches, activeAnalysis, tasks, lastCast, errAt, ui, persisted>>
  /\ BuildIdle

\* GET /events when the hello cannot be sent: catch { dropClient(res); return; }
\* The heartbeat and the close handler are never installed.
ConnectFails(c) ==
  /\ impl = "liveChangeFeed"
  /\ sock[c] = "new"
  /\ sock' = [sock EXCEPT ![c] = "closed"]
  /\ dropClient(c)
  /\ UNCHANGED <<impl, activeAnalysis, lastCast, errAt, ui, persisted>>
  /\ BuildIdle

\* The connection of a subscriber breaks: res.write throws from now on
BreakClient(c) ==
  /\ sock[c] = "up"
  /\ sock' = [sock EXCEPT ![c] = "broken"]
  /\ UNCHANGED <<impl, clients, watcher, watches, activeAnalysis, tasks, lastCast, errAt, ui, persisted>>
  /\ BuildIdle

\* The heartbeat timer of a broken connection fires: clearInterval; dropClient(res)
Heartbeat(c) ==
  /\ impl = "liveChangeFeed"
  /\ sock[c] = "broken"
  /\ sock' = [sock EXCEPT ![c] = "dropped"]
  /\ dropClient(c)
  /\ UNCHANGED <<impl, activeAnalysis, lastCast, errAt, ui, persisted>>
  /\ BuildIdle

\* req.on("close"): liveChangeFeed drops the client, analyze.js only deletes it
Close(c) ==
  /\ sock[c] \in {"up", "broken", "dropped"}
  /\ sock' = [sock EXCEPT ![c] = "closed"]
  /\ IF impl = "liveChangeFeed"
       THEN dropClient(c)
       ELSE /\ clients' = Without(clients, c)
            /\ UNCHANGED <<watcher, watches, tasks>>
  /\ UNCHANGED <<impl, activeAnalysis, lastCast, errAt, ui, persisted>>
  /\ BuildIdle

\* activateAnalysis(opts) up to its first wait
Activate(root) ==
  /\ impl = "liveChangeFeed"
  /\ activeAnalysis.runToken < MaxActivations
  /\ LET runToken == activeAnalysis.runToken + 1 IN
       /\ activeAnalysis' = [rootAbs |-> root, runToken |-> runToken]
       /\ lastCast' = Cast("analysis", runToken, 0, clients)
       /\ clients' = broadcast(clients).clients
       /\ IF clients' = <<>> THEN stopWatcherCall(tasks)
          ELSE IF root # NoRoot THEN startWatcherCall(tasks, root, runToken)
          ELSE stopWatcherCall(tasks)
  /\ UNCHANGED <<impl, sock, errAt, ui, persisted>>
  /\ BuildIdle

\* POST /analyze after the probe: the build runs, and when it did not throw the
\* watcher is restarted
afterProbe(ts, root, token, built) ==
  IF built THEN /\ persisted' = [rootAbs |-> root, runToken |-> token]
                /\ startWatcherCall(ts, root, token)
  ELSE /\ UNCHANGED <<watcher, watches, persisted>>
       /\ tasks' = ts

\* POST /analyze up to its first wait: the token is installed and announced
\* before the probe and the build
PostAnalyze(root, probe, built) ==
  /\ impl = "analyze"
  /\ activeAnalysis.runToken < MaxActivations
  /\ LET runToken == activeAnalysis.runToken + 1 IN
       /\ activeAnalysis' = [rootAbs |-> root, runToken |-> runToken]
       /\ lastCast' = Cast("analysis", runToken, 0, clients)
       /\ clients' = broadcast(clients).clients
       /\ IF probe
            THEN /\ tasks' = Append(tasks, [kind |-> "probe", w |-> 0, root |-> root, run |-> runToken])
                 /\ UNCHANGED <<watcher, watches, persisted>>
            ELSE afterProbe(tasks, root, runToken, built)
  /\ UNCHANGED <<impl, sock, errAt, ui>>
  /\ BuildIdle

\* await probeAppUrl(appUrl) returns
ProbeDone(i, built) ==
  /\ i \in 1..Len(tasks)
  /\ tasks[i].kind = "probe"
  /\ afterProbe(SelectSeq(tasks, LAMBDA t : t # tasks[i]), tasks[i].root, tasks[i].run, built)
  /\ UNCHANGED <<impl, clients, sock, activeAnalysis, lastCast, errAt, ui>>
  /\ BuildIdle

\* The calls that resume when watch w has closed: first each stopWatcher() sets
\* watcher = null, then each startWatcher() that called one opens its watch.
RECURSIVE openAll(_, _)
openAll(ws, starts) ==
  IF starts = <<>> THEN ws
  ELSE openAll(opened(ws, Head(starts).root, Head(starts).run), Tail(starts))

\* await watcher.close() returns
CloseCompletes(w) ==
  /\ w \in 1..Len(watches)
  /\ watches[w].st = "closing"
  /\ LET waiting == SelectSeq(tasks, LAMBDA t : t.kind # "probe" /\ t.w = w)
         starts == SelectSeq(waiting, LAMBDA t : t.kind = "start" /\ t.root # NoRoot)
     IN /\ watches' = openAll([watches EXCEPT ![w].st = "closed"], starts)
        /\ watcher' = IF starts # <<>> THEN Len(watches')
                      ELSE IF waiting # <<>> THEN 0 ELSE watcher
        /\ tasks' = SelectSeq(tasks, LAMBDA t : ~(t.kind # "probe" /\ t.w = w))
  /\ UNCHANGED <<impl, clients, sock, activeAnalysis, lastCast, errAt, ui, persisted>>
  /\ BuildIdle

\* emit(ev, absPath) of an open watch, for a path under its root
FsEvent(w) ==
  /\ w \in 1..Len(watches)
  /\ watches[w].st = "open"
  /\ lastCast' = Cast("fs-change", activeAnalysis.runToken, w, clients)
  /\ clients' = broadcast(clients).clients
  /\ UNCHANGED <<impl, sock, watcher, watches, activeAnalysis, tasks, errAt, ui, persisted>>
  /\ BuildIdle

\* An error notification that carries no run token.
ErrorNoteUntagged == [type |-> "fs-watch-error", runToken |-> NoToken]

\* The notification the error handler of a watch sends
errorNote == [type |-> "fs-watch-error", runToken |-> activeAnalysis.runToken]

\* .on("error", (err) => broadcast("fs-watch-error", { ..., runToken: activeAnalysis.runToken }))
WatchError(w) ==
  /\ w \in 1..Len(watches)
  /\ watches[w].st = "open"
  /\ lastCast' = Cast(errorNote.type, errorNote.runToken, w, clients)
  /\ clients' = broadcast(clients).clients
  /\ errAt' = Len(watches)
  /\ UNCHANGED <<impl, sock, watcher, watches, activeAnalysis, tasks, ui, persisted>>
  /\ BuildIdle

InitFeed ==
  /\ fs = CHOOSE t \in ResolveTrees : TRUE
  /\ IdleBuild
  /\ rq = IdleRq
  /\ requested = {}
  /\ impl \in {"liveChangeFeed", "analyze"}
  /\ FeedStart
  /\ ui = UiStart

NextFeed ==
  \/ \E c \in Clients : Connect(c)
  \/ \E c \in Clients : ConnectFails(c)
  \/ \E c \in Clients : BreakClient(c)
  \/ \E c \in Clients : Heartbeat(c)
  \/ \E c \in Clients : Close(c)
  \/ \E root \in WatchRoots \cup {NoRoot} : Activate(root)
  \/ \E root \in WatchRoots, probe \in BOOLEAN, built \in BOOLEAN : PostAnalyze(root, probe, built)
  \/ \E i \in 1..MaxActivations, built \in BOOLEAN : ProbeDone(i, built)
  \/ \E w \in 1..MaxActivations : CloseCompletes(w)
  \/ \E w \in 1..MaxActivations : FsEvent(w)
  \/ \E w \in 1..MaxActivations : WatchError(w)

SpecFeed == InitFeed /\ [][NextFeed]_vars

(***************************************************************************)
(* Properties of the live change feed                                      *)
(***************************************************************************)
WatchIds == 1..Len(watches)

OpenWatches == { w \in WatchIds : watches[w].st = "open" }

\* C13: under every interleaving of activations and subscriber changes, at
\* most one filesystem watch is open at a time, and every watch ever opened
\* is either the currently tracked watcher or has been closed.
C13_OneActiveWatch ==
  /\ Cardinality(OpenWatches) <= 1
  /\ \A w \in WatchIds : w = watcher \/ watches[w].st = "closed"

\* C14: every change notification carries the run token of the run whose
\* root the emitting watch was started for; an event raised by the previous
\* run's watch after a newer token was installed is not stamped with the
\* newer token.
C14_EventCarriesItsRunToken ==
  lastCast.type = "fs-change" => lastCast.runToken = watches[lastCast.watch].run

(***************************************************************************)
(* The consumer of the feed (browser UI): the handlers startLiveEvents     *)
(* installs, driven by any sequence of events.                             *)
(***************************************************************************)
Tokens == 0..MaxActivations

ChangedIds == { <<nA>>, <<nServer>> }

FeedQuiet ==
  UNCHANGED <<impl, clients, sock, watcher, watches, activeAnalysis, tasks, lastCast, errAt,
              persisted>>

Seen(type, t, applied) ==
  [type |-> type, runToken |-> t, seen |-> ui.currentRunToken, applied |-> applied]

\* hello: currentRunToken = msg?.activeAnalysis?.runToken || null
UiHello(t) ==
  /\ ui' = [ui EXCEPT !.currentRunToken = t, !.last = Seen("hello", t, TRUE)]
  /\ FeedQuiet /\ BuildIdle

\* analysis: currentRunToken = msg?.runToken || null
UiAnalysis(t) ==
  /\ ui' = [ui EXCEPT !.currentRunToken = t, !.last = Seen("analysis", t, TRUE)]
  /\ FeedQuiet /\ BuildIdle

\* POST /analyze answered: currentRunToken = data?.runToken || currentRunToken
UiResponse(t) ==
  /\ ui' = [ui EXCEPT !.currentRunToken = IF t # NoToken THEN t ELSE @,
                      !.last = Seen("response", t, TRUE)]
  /\ FeedQuiet /\ BuildIdle

\* if (currentRunToken && msg.runToken && msg.runToken !== currentRunToken) return;
UiIgnoresEvent(t) == ui.currentRunToken # NoToken /\ t # NoToken /\ t # ui.currentRunToken

\* fs-change: unless ignored, the node is marked as changed and, being the
\* selected node, its panels are refreshed
UiFsChange(t, id) ==
  /\ ui' = IF UiIgnoresEvent(t)
             THEN [ui EXCEPT !.last = Seen("fs-change", t, FALSE)]
             ELSE [ui EXCEPT !.marked = @ \cup {id}, !.last = Seen("fs-change", t, TRUE)]
  /\ FeedQuiet /\ BuildIdle

InitConsumer ==
  /\ fs = CHOOSE t \in ResolveTrees : TRUE
  /\ IdleBuild
  /\ rq = IdleRq
  /\ requested = {}
  /\ FeedIdle

NextConsumer ==
  \/ \E t \in Tokens : UiHello(t)
  \/ \E t \in Tokens : UiAnalysis(t)
  \/ \E t \in Tokens : UiResponse(t)
  \/ \E t \in Tokens, id \in ChangedIds : UiFsChange(t, id)

SpecConsumer == InitConsumer /\ [][NextConsumer]_vars

\* C15: the consumer ignores (marks nothing, refreshes nothing for) any
\* change notification whose run token differs from the token it last
\* observed, also when one of the two tokens is null.
C15_StaleEventsIgnored ==
  (ui.last.type = "fs-change" /\ ui.last.runToken # ui.last.seen) => ~ui.last.applied

\* C16: in liveChangeFeed, whenever the subscriber set is empty no
\* filesystem watch is running, however the set became empty (a dropped
\* client, or a client removed by a failed send during a broadcast).
C16_NoSubscribersNoWatch ==
  (impl = "liveChangeFeed" /\ clients = <<>>) => OpenWatches = {}

\* C17: a send failure to one subscriber during a broadcast drops that
\* subscriber only: every subscriber whose send works receives the event,
\* wherever it stands in the iteration order, and stays subscribed, and the
\* failure does not end the broadcast.
C17_BroadcastIsolatesFailures ==
  lastCast.type # "" =>
    /\ lastCast.got = lastCast.up
    /\ lastCast.after = SelectSeq(lastCast.before, LAMBDA c : c \in lastCast.up)

\* A broadcast in which the first subscriber's send failed and the second received.
C17_Witness ==
  /\ Len(lastCast.before) = 2
  /\ lastCast.before[1] \notin lastCast.up
  /\ lastCast.before[2] \in lastCast.got
  /\ lastCast.after = <<lastCast.before[2]>>

\* A step in which the error handler of a watch ran.
IsErrorStep ==
  errAt' # errAt \/ (lastCast' # lastCast /\ lastCast'.type = "fs-watch-error")

Healthy == { c \in SetOf(clients) : sock[c] = "up" }

\* After a watch error, an activation of liveChangeFeed with a root that
\* leaves at least one subscriber either opens the watch on that root at
\* once, or asks the tracked watch to close and waits to open its own.
RestartStep ==
  ( /\ impl = "liveChangeFeed" /\ errAt >= 0
    /\ activeAnalysis'.runToken # activeAnalysis.runToken
    /\ clients' # <<>> /\ activeAnalysis'.rootAbs # NoRoot ) =>
    LET root == activeAnalysis'.rootAbs
        token == activeAnalysis'.runToken
    IN \/ /\ watcher = 0
          /\ watches' = Append(watches, [root |-> root, run |-> token, st |-> "open"])
          /\ watcher' = Len(watches')
       \/ /\ watcher # 0
          /\ watcher' = watcher
          /\ watches'[watcher].st = "closing"
          /\ tasks' = Append(tasks, [kind |-> "start", w |-> watcher, root |-> root, run |-> token])

\* When the close an activation waits for completes, its watch is open.
ReopenStep ==
  \A i \in 1..Len(tasks) :
    ( /\ tasks[i].kind = "start" /\ tasks[i].root # NoRoot
      /\ watches[tasks[i].w].st = "closing" /\ watches'[tasks[i].w].st = "closed" ) =>
      \E w \in 1..Len(watches') :
        watches'[w] = [root |-> tasks[i].root, run |-> tasks[i].run, st |-> "open"]

\* C18 as stated: a watch error is delivered to all current subscribers as
\* fs-watch-error with the active run token, leaves the subscriber set and
\* the active analysis unchanged, and a later activation with a subscriber
\* again results in an open watch on the activated root.
C18_ErrorLeavesSubscribersUnchanged ==
  [][ /\ IsErrorStep =>
           /\ lastCast'.type = "fs-watch-error"
           /\ lastCast'.runToken = activeAnalysis.runToken
           /\ lastCast'.got = SetOf(clients)
           /\ clients' = clients
           /\ activeAnalysis' = activeAnalysis
      /\ RestartStep
      /\ ReopenStep ]_vars

\* C18, amended: the error is delivered to every current subscriber whose
\* send works, as fs-watch-error with the active run token; subscribers
\* whose send fails are dropped, and nothing else changes: the active
\* analysis, the tracked watch and every watch stay as they were; a later
\* activation with a subscriber again results in an open watch on its root.
C18_ErrorIsANotification ==
  [][ /\ IsErrorStep =>
           /\ lastCast'.type = "fs-watch-error"
           /\ lastCast'.runToken = activeAnalysis.runToken
           /\ lastCast'.got = Healthy
           /\ SetOf(clients') = Healthy
           /\ activeAnalysis' = activeAnalysis
           /\ watcher' = watcher /\ watches' = watches /\ tasks' = tasks
      /\ RestartStep
      /\ ReopenStep ]_vars

\* After an error on a watch, that watch was closed and an activation's watch
\* is open and tracked, with a subscriber that received the error still on.
C18_Witness ==
  /\ impl = "liveChangeFeed"
  /\ errAt >= 1
  /\ watches[errAt].st = "closed"
  /\ watcher > errAt
  /\ watches[watcher] = [root |-> activeAnalysis.rootAbs, run |-> activeAnalysis.runToken,
                         st |-> "open"]
  /\ clients # <<>>

(***************************************************************************)
(* Properties of resolveWithExtensions                                     *)
(***************************************************************************)
\* The candidates "<base><ext>" and "<base>/index<ext>", in list order.
AppendedTo(base) == [i \in 1..Len(ALL_EXTENSIONS) |-> AppendExt(base, ALL_EXTENSIONS[i])]

IndexesIn(base) ==
  [i \in 1..Len(ALL_EXTENSIONS) |-> Append(base, <<"index">> \o ALL_EXTENSIONS[i])]

\* C19: for the base path of a relative specifier, resolution returns the
\* first existing candidate in the order: the literal path if it has an
\* extension and exists; else the path with each listed extension appended,
\* in list order, tried for every base whose literal form does not exist,
\* also when the base already contains a dot; else index.<ext> inside the
\* path taken as a directory, in list order; and null if none exists (or if
\* the candidate found lies outside the project root).
C19_CandidateOrder ==
  ( /\ rq.done /\ rq.spec.scheme = "" /\ ~rq.spec.abs
    /\ rq.spec.segs # <<>> /\ StartsWithDot(rq.spec.segs[1]) ) =>
    LET base == Resolve(Dirname(rq.from), rq.spec.segs)
        literal == base # <<>> /\ ExtName(Last(base)) # <<>> /\ ExistsFile(base)
        appended == IF base # <<>> THEN FirstFile(AppendedTo(base)) ELSE Null
        index == IF ExistsDir(base) THEN FirstFile(IndexesIn(base)) ELSE Null
        found == IF literal THEN base
                 ELSE IF appended # Null THEN appended
                 ELSE index
    IN rq.out = IF found # Null /\ resolverIsInsideRoot(rq.root, found) THEN found ELSE Null

(***************************************************************************)
(* Properties of the merge branch of ensureNode                            *)
(***************************************************************************)
\* Node e keeps every populated field in e2.
KeepsPopulated(e, e2) ==
  /\ e2.id = e.id
  /\ e.lines > 0 => e2.lines = e.lines
  /\ e.complexity > 0 => e2.complexity = e.complexity
  /\ e.headerComment # "" => e2.headerComment = e.headerComment
  /\ e.kind # "" => e2.kind = e.kind
  /\ e.file # <<>> => e2.file = e.file

\* C20: upgrade never downgrades: within a run, once a node's lines or
\* complexity is greater than zero, or its headerComment, kind or file is
\* non-empty, no later step (no later ensureNode call for its id) changes
\* that field, and no node is ever removed from nodes.
C20_NeverDowngrades ==
  [][ run' = run =>
        /\ Len(nodes') >= Len(nodes)
        /\ \A i \in 1..Len(nodes) : KeepsPopulated(nodes[i], nodes'[i]) ]_vars

\* The entry node, populated when the entry was dequeued, has since been met
\* again as a child of the expanded project root (ensureNode with a
\* placeholder for its id) and still has its real metrics.
C20_Witness ==
  /\ pc = "call" /\ Top.fn = "expand" /\ Top.abs = Root
  /\ ExistsFile(EntryAbs)
  /\ nServer \notin SetOf(Top.entries)
  /\ NodeOf(EntryAbs).lines = 5
  /\ NodeOf(EntryAbs).complexity = 2
  /\ NodeOf(EntryAbs).headerComment = "entry"

(***************************************************************************)
(* Properties of the traversal loop and of bounded directory expansion     *)
(***************************************************************************)
\* A step of the loop head that reads the dequeued path (readUtf8, parseFile).
IsLoopRead == pc = "dequeue" /\ pc' \in {"refs", "failed"}

\* C21: within one build() run each absolute path is read and extracted by
\* the traversal loop at most once, however often it was queued: the loop
\* reads a path only when it is not yet visited and marks it visited in the
\* same step, a queued path that is visited is dropped unread, and the
\* visited set only grows during the run.
C21_ReadAtMostOnce ==
  [][ run' = run =>
        /\ visited \subseteq visited'
        /\ IsLoopRead => (Head(queue) \notin visited /\ Head(queue) \in visited')
        /\ (pc = "dequeue" /\ queue # <<>> /\ Head(queue) \in visited) =>
             (pc' = "dequeue" /\ nodes' = nodes /\ cur' = cur /\ queue' = Tail(queue)) ]_vars

\* A path that was read (its node has real metrics) heads the queue again.
C21_Witness ==
  /\ pc = "dequeue" /\ queue # <<>>
  /\ Head(queue) \in visited
  /\ Head(queue) = AAbs
  /\ NodeOf(AAbs).lines = 3

\* A step in which directory expansion hands a text child to
\* tryParseReferencedTextFile.
IsTextScan ==
  /\ pc = "call" /\ stack # <<>> /\ Top.fn = "expand"
  /\ Len(stack') = Len(stack) + 1
  /\ stack'[Len(stack')].fn = "parse"

\* C22: within one build() run each lightweight text file found by
\* directory expansion is extracted for secondary references at most once,
\* also when its directory is reached again through another reference or
\* through a reference of one of its own text files.
C22_TextScannedOnce ==
  [][ IsTextScan => stack'[Len(stack')].abs \notin scanned ]_vars

\* The include links from directory node d to nodes directly inside it.
ChildLinks(d) ==
  { l \in 1..Len(links) :
      /\ links[l].source = d /\ links[l].type = "include"
      /\ links[l].target # <<>> /\ Front(links[l].target) = d }

\* A step of expandDirectoryBounded that adds a node.
IsExpansionAdd ==
  /\ pc = "call" /\ stack # <<>> /\ Top.fn = "expand" /\ Top.entries # <<>>
  /\ Len(nodes') > Len(nodes)

\* C23: bounded expansion of a referenced directory adds at most
\* MAX_DIR_ENTRIES (140) child nodes per enumerated directory, adds no node
\* more than MAX_DIR_DEPTH (2) levels below the referenced directory (the
\* directory the expansion was started on at depth 0), and adds no node for
\* a child whose name is in the skip list or starts with a dot.
C23_BoundedExpansion ==
  /\ [](pc # "done" =>
          \A i \in 1..Len(nodes) : Cardinality(ChildLinks(nodes[i].id)) <= MAX_DIR_ENTRIES)
  /\ [][ IsExpansionAdd =>
           LET name == Head(Top.entries)
               j == Len(stack) - Top.depth
           IN /\ name \notin SKIP_NAMES
              /\ name[1] # ""
              /\ Top.count < MAX_DIR_ENTRIES
              /\ j >= 1 /\ stack[j].fn = "expand" /\ stack[j].depth = 0
              /\ IsPrefix(stack[j].abs, ChildAbs)
              /\ Len(ChildAbs) - Len(stack[j].abs) <= MAX_DIR_DEPTH ]_vars

\* The expansion of ./assets stopped at the cap with entries left over.
C23_Witness ==
  /\ pc = "call" /\ stack # <<>> /\ Top.fn = "expand" /\ Top.abs = AssetsAbs
  /\ Top.count = MAX_DIR_ENTRIES /\ Top.entries # <<>>
  /\ Cardinality(ChildLinks(<<<<"assets">>>>)) = MAX_DIR_ENTRIES

(***************************************************************************)
(* The UI shell (one runAnalysis per browser instance) against the         *)
(* POST /analyze and GET /events handlers of routes/analyze.js.            *)
(* wire.post[u] holds the requests of instance u that have not been        *)
(* answered to it yet, wire.sse[u] the notifications written to its event  *)
(* stream and not yet handled by it.  shell[u].at is where runAnalysis of  *)
(* u waits: "post" (the POST), "metrics" (the fetch of the graph), "idle". *)
(* shell[u].startedBy records who began the run that is in flight.         *)
(***************************************************************************)
Apps == {"a1", "a2"}

\* getAppById(appId).rootDir
AppRoot(a) == IF a = "a1" THEN "r1" ELSE "r2"

ShellQuiet ==
  UNCHANGED <<fs, pc, visited, nodes, links, queue, nodeIndex, linkIndex, cur, stack,
              failure, atLoopExit, run, prev, rq, requested, scanned,
              impl, clients, sock, watcher, watches, tasks, lastCast, errAt, ui, persisted,
              walk>>

Request(appId) == [appId |-> appId, runToken |-> NoToken, st |-> "sent"]

\* runAnalysis() without the in-flight test: every call starts a run.
RunAnalysisUnguarded(sh, w, u, by) ==
  IF sh[u].appSelect = ""
    THEN [shell |-> [sh EXCEPT ![u].analyzePending = FALSE], wire |-> w]
    ELSE [shell |-> [sh EXCEPT ![u].analyzeInFlight = TRUE, ![u].analyzePending = FALSE,
                               ![u].at = "post", ![u].startedBy = by],
          wire |-> [w EXCEPT !.post[u] = Append(@, Request(sh[u].appSelect))]]

\* runAnalysis() up to its first wait, from the state (sh, w)
runAnalysis(sh, w, u, by) ==
  IF sh[u].analyzeInFlight
    THEN [shell |-> [sh EXCEPT ![u].analyzePending = TRUE], wire |-> w]
  ELSE IF sh[u].appSelect = ""
    THEN [shell |-> [sh EXCEPT ![u].analyzePending = FALSE], wire |-> w]
  ELSE [shell |-> [sh EXCEPT ![u].analyzeInFlight = TRUE, ![u].analyzePending = FALSE,
                             ![u].at = "post", ![u].startedBy = by],
        wire |-> [w EXCEPT !.post[u] = Append(@, Request(sh[u].appSelect))]]

\* finally { analyzeInFlight = false; if (analyzePending) { ...; runAnalysis() } }
finally(sh, w, u) ==
  LET s1 == [sh EXCEPT ![u].analyzeInFlight = FALSE, ![u].at = "idle", ![u].startedBy = ""]
  IN IF sh[u].analyzePending
       THEN runAnalysis([s1 EXCEPT ![u].analyzePending = FALSE], w, u, "finally")
       ELSE [shell |-> s1, wire |-> w]

Becomes(r) == shell' = r.shell /\ wire' = r.wire

\* row.addEventListener("click", ...): const newId = String(a.id || "");
\* setSelectedAppId(newId); runAnalysis().  init() opens the event stream
\* before loadApps() builds the rows, so a row is clicked with the stream open.
SelectApp(u, a) ==
  /\ shell[u].sse
  /\ Becomes(runAnalysis([shell EXCEPT ![u].appSelect = a], wire, u, "click"))
  /\ UNCHANGED activeAnalysis /\ ShellQuiet

\* startLiveEvents() and GET /events: the stream opens with a hello
StartLiveEvents(u) ==
  /\ ~shell[u].sse
  /\ shell' = [shell EXCEPT ![u].sse = TRUE]
  /\ wire' = [wire EXCEPT !.sse[u] = Append(@, [type |-> "hello", runToken |-> activeAnalysis.runToken])]
  /\ UNCHANGED activeAnalysis /\ ShellQuiet

\* POST /analyze up to its first wait: the token is created, installed and
\* announced to every open event stream
ServeAnalyze(u, i) ==
  /\ i \in 1..Len(wire.post[u])
  /\ wire.post[u][i].st = "sent"
  /\ activeAnalysis.runToken < MaxPosts
  /\ LET runToken == activeAnalysis.runToken + 1 IN
       /\ activeAnalysis' = [rootAbs |-> AppRoot(wire.post[u][i].appId), runToken |-> runToken]
       /\ wire' = [post |-> [wire.post EXCEPT ![u][i].st = "serving", ![u][i].runToken = runToken],
                   sse |-> [v \in Instances |->
                              IF shell[v].sse
                                THEN Append(wire.sse[v], [type |-> "analysis", runToken |-> runToken])
                                ELSE wire.sse[v]]]
  /\ UNCHANGED shell /\ ShellQuiet

\* res.json({ ..., runToken, ... }) or res.status(500)
Respond(u, i, ok) ==
  /\ i \in 1..Len(wire.post[u])
  /\ wire.post[u][i].st = "serving"
  /\ wire' = [wire EXCEPT !.post[u][i].st = IF ok THEN "ok" ELSE "failed"]
  /\ UNCHANGED <<shell, activeAnalysis>> /\ ShellQuiet

Remove(seq, i) == SubSeq(seq, 1, i - 1) \o SubSeq(seq, i + 1, Len(seq))

\* await fetchJson("/analyze") returns: the token of the response is taken
\* over and the graph is fetched; or it throws and the run ends
PostReturns(u, i) ==
  /\ shell[u].at = "post"
  /\ i \in 1..Len(wire.post[u])
  /\ wire.post[u][i].st \in {"ok", "failed"}
  /\ LET w == [wire EXCEPT !.post[u] = Remove(@, i)] IN
       IF wire.post[u][i].st = "ok"
         THEN /\ shell' = [shell EXCEPT ![u].currentRunToken = wire.post[u][i].runToken,
                                        ![u].at = "metrics"]
              /\ wire' = w
         ELSE Becomes(finally(shell, w, u))
  /\ UNCHANGED activeAnalysis /\ ShellQuiet

\* await fetchJson(data.metricsUrl) returns or throws, the graph is drawn or
\* the failure reported: the run ends
MetricsReturns(u) ==
  /\ shell[u].at = "metrics"
  /\ Becomes(finally(shell, wire, u))
  /\ UNCHANGED activeAnalysis /\ ShellQuiet

\* the hello and analysis listeners of startLiveEvents
SseDelivered(u) ==
  /\ wire.sse[u] # <<>>
  /\ shell' = [shell EXCEPT ![u].currentRunToken = Head(wire.sse[u]).runToken]
  /\ wire' = [wire EXCEPT !.sse[u] = Tail(@)]
  /\ UNCHANGED activeAnalysis /\ ShellQuiet

InitShell ==
  /\ fs = CHOOSE t \in ResolveTrees : TRUE
  /\ IdleBuild
  /\ rq = IdleRq
  /\ requested = {}
  /\ impl = "analyze"
  /\ FeedStart
  /\ ui = UiStart

NextShell ==
  \/ \E u \in Instances, a \in Apps \cup {""} : SelectApp(u, a)
  \/ \E u \in Instances : StartLiveEvents(u)
  \/ \E u \in Instances, i \in 1..MaxPosts : ServeAnalyze(u, i)
  \/ \E u \in Instances, i \in 1..MaxPosts, ok \in BOOLEAN : Respond(u, i, ok)
  \/ \E u \in Instances, i \in 1..MaxPosts : PostReturns(u, i)
  \/ \E u \in Instances : MetricsReturns(u)
  \/ \E u \in Instances : SseDelivered(u)

SpecShell == InitShell /\ [][NextShell]_vars

\* A step in which instance u sends a POST /analyze.
NewPost(u) ==
  /\ wire'.post[u] # <<>>
  /\ wire'.post[u][Len(wire'.post[u])].st = "sent"
  /\ \/ Len(wire'.post[u]) > Len(wire.post[u])
     \/ wire.post[u][Len(wire.post[u])].st # "sent"

\* A step in which the run of instance u that is in flight ends.
RunEnds(u) ==
  \/ shell[u].at = "metrics" /\ shell'[u].at # "metrics"
  \/ /\ shell[u].at = "post" /\ wire.post[u] # <<>> /\ Head(wire.post[u]).st = "failed"
     /\ (wire'.post[u] = <<>> \/ Head(wire'.post[u]).st = "sent")

\* C24: the UI shell serializes analysis requests.  From one UI instance at
\* most one POST /analyze is in flight at any time; calls of runAnalysis
\* made while a run is in flight send nothing and lead to exactly one more
\* run, which starts in the step that ends the run in flight (whether it
\* succeeded or failed) and posts the selection current at that moment; and
\* once no run is in flight, analyzeInFlight and analyzePending are false.
C24_RunsAreSerialized ==
  /\ [](\A u \in Instances :
          /\ Len(wire.post[u]) <= 1
          /\ shell[u].analyzeInFlight <=> shell[u].at # "idle"
          /\ shell[u].at = "idle" => (~shell[u].analyzePending /\ wire.post[u] = <<>>))
  /\ [][\A u \in Instances :
          /\ NewPost(u) =>
               /\ wire'.post[u][Len(wire'.post[u])].appId = shell'[u].appSelect
               /\ shell[u].analyzeInFlight => (RunEnds(u) /\ shell[u].analyzePending)
          /\ (shell[u].analyzeInFlight /\ ~RunEnds(u)) =>
               (shell'[u].analyzePending \/ ~shell[u].analyzePending) 
          /\ RunEnds(u) =>
               /\ ~shell'[u].analyzePending
               /\ IF shell[u].analyzePending /\ shell[u].appSelect # ""
                    THEN NewPost(u) /\ shell'[u].startedBy = "finally"
                    ELSE ~NewPost(u) /\ shell'[u].at = "idle" ]_vars

\* A run was in flight for a1, the selection moved to a2 meanwhile, and the
\* run that followed it posts a2.
C24_Witness ==
  /\ shell["u1"].startedBy = "finally" /\ shell["u1"].at = "post"
  /\ activeAnalysis = [rootAbs |-> "r1", runToken |-> 1]
  /\ wire.post["u1"] = <<Request("a2")>>
  /\ ~shell["u2"].sse

(***************************************************************************)
(* Properties of the handlers of the change stream and of POST /analyze    *)
(***************************************************************************)
\* A step in which a GET /events request is handled.
IsSubscribe == \E c \in Clients : sock[c] = "new" /\ sock'[c] # "new"

NoRequestInFlight == impl = "analyze" /\ tasks = <<>>

\* C26: whenever no POST /analyze request is in flight, the open watch (if
\* any), activeAnalysis.rootAbs with its runToken, and the persisted graph
\* all belong to the same analysis run, also after two requests for
\* different roots overlapped at the URL probe or at the close of the watch.
C26_OneRunAtRest ==
  NoRequestInFlight =>
    /\ persisted = activeAnalysis
    /\ \A w \in OpenWatches :
         watches[w].root = activeAnalysis.rootAbs /\ watches[w].run = activeAnalysis.runToken

\* The step in which the request that was given token t ends with an error:
\* at once (no probe was awaited) or when its probe has returned.
RequestFails(t) ==
  /\ impl = "analyze" /\ persisted' = persisted
  /\ \/ activeAnalysis.runToken = t - 1 /\ activeAnalysis'.runToken = t /\ tasks' = tasks
     \/ /\ \E i \in 1..Len(tasks) : tasks[i].kind = "probe" /\ tasks[i].run = t
        /\ \A i \in 1..Len(tasks') : ~(tasks'[i].kind = "probe" /\ tasks'[i].run = t)

\* C27: a POST /analyze request that fails after the entrypoint was resolved
\* (the probe, the build or the persistence step throws) leaves the active
\* analysis, the open watch and the persisted graph as they were before the
\* request and announces no analysis for the failed run: when the request
\* has ended, its token is not the active one and was never broadcast.
C27_FailedRequestLeavesNoTrace ==
  [][ \A t \in 1..MaxActivations :
        RequestFails(t) =>
          /\ activeAnalysis'.runToken # t
          /\ ~(lastCast'.type = "analysis" /\ lastCast'.runToken = t)
          /\ watches' = watches /\ watcher' = watcher ]_vars

(***************************************************************************)
(* The emit callback of a watch: startWatcher(rootAbs) on a fixed root,    *)
(* fed with the events chokidar may raise.  lastCast holds what the last   *)
(* event led to: the fs-change notification, or type "" when emit returned *)
(* without a broadcast.  File names hold no backslash, so the final        *)
(* replace(/\\/g, "/") of toRelPosix has nothing to replace.               *)
(***************************************************************************)
\* toRelPosix without the boundary test.
ToRelPosixUnbounded(rootAbs, absPath) ==
  LET rel == Relative(rootAbs, absPath)
  IN IF rel = <<>> THEN Null ELSE rel

\* toRelPosix(rootAbs, absPath): Null for the root itself and for a path
\* whose relative form is ".." or begins with "../"
toRelPosix(rootAbs, absPath) ==
  LET rel == Relative(rootAbs, absPath)
  IN IF rel = <<>> THEN Null
     ELSE IF rel[1] = DotDot THEN Null
     ELSE rel

\* the events startWatcher subscribes emit to
FsEvents == {"add", "change", "unlink", "addDir", "unlinkDir"}

EmitRoots == { <<>>, Root, PublicAbs }

EmitPaths == { <<>>, Root, EntryAbs, DotsFooAbs, PublicAbs, CssAbs, SiteAbs, NotesAbs,
               AppAbs, IndexAbs, SecretAbs }

\* const emit = (ev, absPath) => { const id = toRelPosix(rootAbs, absPath);
\*   if (!id) return; broadcast("fs-change", { ev, id, ..., runToken }) }
Emit(ev, absPath) ==
  /\ watcher # 0 /\ watches[watcher].st = "open"
  /\ LET id == toRelPosix(watches[watcher].root, absPath) IN
       lastCast' = [type |-> IF id = Null THEN "" ELSE "fs-change", ev |-> ev, id |-> id,
                    absPath |-> absPath, runToken |-> activeAnalysis.runToken]
  /\ UNCHANGED <<impl, clients, sock, watcher, watches, activeAnalysis, tasks, errAt, ui, persisted>>
  /\ BuildIdle

InitEmit ==
  /\ fs = CHOOSE t \in ResolveTrees : TRUE
  /\ IdleBuild
  /\ rq = IdleRq
  /\ requested = {}
  /\ impl \in {"liveChangeFeed", "analyze"}
  /\ clients = <<>>
  /\ sock = [c \in Clients |-> "new"]
  /\ \E root \in EmitRoots :
       /\ watches = <<[root |-> root, run |-> 1, st |-> "open"]>>
       /\ activeAnalysis = [rootAbs |-> root, runToken |-> 1]
  /\ watcher = 1
  /\ tasks = <<>>
  /\ lastCast = NoCast
  /\ errAt = -1
  /\ persisted = NoAnalysis
  /\ shell = ShellStart
  /\ wire = NoWire
  /\ walk = NoWalk
  /\ ui = UiStart

NextEmit == \E ev \in FsEvents, absPath \in EmitPaths : Emit(ev, absPath)

SpecEmit == InitEmit /\ [][NextEmit]_vars

\* The root the watch was started on.
WatchedRoot == watches[1].root

\* C29 (as stated): every fs-change notification has ev in {add, change,
\* unlink, addDir, unlinkDir} and an id that is the non-empty path of the
\* changed entry relative to the root of the watch and never begins with
\* ".."; a change to the root itself or outside it produces no notification.
C29_IdNeverBeginsWithTwoDots ==
  lastCast.type = "fs-change" =>
    /\ lastCast.ev \in {"add", "change", "unlink", "addDir", "unlinkDir"}
    /\ lastCast.id # <<>>
    /\ ~BeginsWithTwoDots(lastCast.id)
    /\ Resolve(WatchedRoot, lastCast.id) = lastCast.absPath
    /\ lastCast.absPath # WatchedRoot /\ IsPrefix(WatchedRoot, lastCast.absPath)

\* C29 (amended): the id is the non-empty relative path of the changed
\* entry, its first segment is never "..", and the entry lies below the
\* root; an event for the root itself or for a path outside it is dropped,
\* and no other event is.
C29_IdIsRelativePath ==
  /\ lastCast.type = "fs-change" =>
       /\ lastCast.ev \in {"add", "change", "unlink", "addDir", "unlinkDir"}
       /\ lastCast.id # <<>> /\ lastCast.id # Null
       /\ lastCast.id[1] # DotDot
       /\ Resolve(WatchedRoot, lastCast.id) = lastCast.absPath
       /\ lastCast.absPath # WatchedRoot /\ IsPrefix(WatchedRoot, lastCast.absPath)
  /\ (lastCast.type = "" /\ lastCast # NoCast) =>
       (lastCast.absPath = WatchedRoot \/ ~IsPrefix(WatchedRoot, lastCast.absPath))

\* A file below the root whose own name begins with two dots was announced.
C29_Witness ==
  /\ lastCast.type = "fs-change" /\ lastCast.ev = "change"
  /\ WatchedRoot = Root /\ lastCast.absPath = DotsFooAbs /\ lastCast.id = <<nDotsFoo>>

\* Every request has been answered and the answer taken, and every
\* notification written to an event stream has been handled.
AllDelivered == \A u \in Instances : wire.post[u] = <<>> /\ wire.sse[u] = <<>>

\* C28: with several connected UI consumers, once every in-flight HTTP
\* response and every broadcast notification has been delivered, each
\* consumer's last-seen run token equals the server's current
\* activeAnalysis.runToken, so that no consumer discards the change events
\* of the current run as stale.
C28_ConsumersAgreeOnToken ==
  AllDelivered =>
    \A u \in Instances : shell[u].sse => shell[u].currentRunToken = activeAnalysis.runToken

(***************************************************************************)
(* parseJsTs: the complexity visitors of the traversal.  traverse() enters *)
(* every node of the tree once and no visitor skips a subtree, so a tree   *)
(* is given as the sequence of its nodes in the order they are entered.    *)
(* A node is [type, operator, test]: operator is "" except for logical and *)
(* assignment expressions, test is "expr" or, for a default case, "null".  *)
(***************************************************************************)
Node(type, operator, test) == [type |-> type, operator |-> operator, test |-> test]

AstNodes ==
  { Node(t, "", "") : t \in { "IfStatement", "ForStatement", "ForInStatement", "ForOfStatement",
                             "WhileStatement", "DoWhileStatement", "CatchClause",
                             "ConditionalExpression", "SwitchStatement", "TryStatement",
                             "FunctionDeclaration", "OptionalMemberExpression" } }
  \cup { Node("SwitchCase", "", t) : t \in {"expr", "null"} }
  \cup { Node("LogicalExpression", op, "") : op \in {"&&", "||", "??"} }
  \cup { Node("AssignmentExpression", op, "") : op \in {"=", "||="} }

RECURSIVE SeqsUpTo(_, _)
SeqsUpTo(S, n) ==
  IF n = 0 THEN { <<>> }
  ELSE LET shorter == SeqsUpTo(S, n - 1)
       IN shorter \cup { Append(q, x) : q \in shorter, x \in S }

\* What the visitors of lines 394-410 add to out.complexity on entering node
Visit(node) ==
  IF node.type \in { "IfStatement", "ForStatement", "ForInStatement", "ForOfStatement",
                     "WhileStatement", "DoWhileStatement", "CatchClause",
                     "ConditionalExpression" } THEN 1
  ELSE IF node.type = "SwitchCase" THEN (IF node.test # "null" THEN 1 ELSE 0)
  ELSE IF node.type = "LogicalExpression"
    THEN (IF node.operator = "&&" \/ node.operator = "||" THEN 1 ELSE 0)
  ELSE 0

\* traverse.default(ast, { ... }) enters the next node
Enter ==
  /\ walk.next <= Len(walk.ast)
  /\ walk' = [walk EXCEPT !.next = @ + 1,
                          !.out.complexity = @ + Visit(walk.ast[walk.next])]
  /\ UNCHANGED <<impl, clients, sock, watcher, watches, activeAnalysis, tasks, lastCast, errAt,
                 ui, persisted>>
  /\ UNCHANGED <<fs, pc, visited, nodes, links, queue, nodeIndex, linkIndex, cur, stack,
                 failure, atLoopExit, run, prev, rq, requested, scanned, shell, wire>>

InitWalk ==
  /\ fs = CHOOSE t \in ResolveTrees : TRUE
  /\ IdleBuild
  /\ rq = IdleRq
  /\ requested = {}
  /\ impl = "liveChangeFeed"
  /\ clients = <<>>
  /\ sock = [c \in Clients |-> "new"]
  /\ watcher = 0
  /\ watches = <<>>
  /\ activeAnalysis = NoAnalysis
  /\ tasks = <<>>
  /\ lastCast = NoCast
  /\ errAt = -1
  /\ persisted = NoAnalysis
  /\ shell = ShellStart
  /\ wire = NoWire
  /\ ui = UiStart
  /\ \E ast \in SeqsUpTo(AstNodes, MaxAstNodes) : walk = [NoWalk EXCEPT !.ast = ast]

NextWalk == Enter

SpecWalk == InitWalk /\ [][NextWalk]_vars

\* The branching constructs: conditionals,
\* loops of every kind, non-default switch cases, exception handlers,
\* ternary expressions and every short-circuit logical operator (&&, || and ??).
IsBranching(node) ==
  \/ node.type \in { "IfStatement", "ForStatement", "ForInStatement", "ForOfStatement",
                     "WhileStatement", "DoWhileStatement", "CatchClause",
                     "ConditionalExpression", "LogicalExpression" }
  \/ node.type = "SwitchCase" /\ node.test # "null"

\* C30: for a program-source file that parses, the extracted complexity
\* equals the number of branching constructs in its syntax tree: one for
\* each if statement, each loop of every kind, each switch case other than
\* default, each catch clause, each ternary expression and each
\* short-circuit logical operator; nothing else adds to it.
C30_ComplexityCountsBranches ==
  walk.next > Len(walk.ast) =>
    walk.out.complexity =
      Cardinality({ i \in 1..Len(walk.ast) : IsBranching(walk.ast[i]) })

====
